---- MODULE Spec2Model ----
(***************************************************************************)
(* A model of the wifibroadcast link engine: the session-key protocol and  *)
(* the AEAD envelope (src/src/Encryption.hpp), the transmit path           *)
(* (src/src/WBTransmitter.cpp), the receive dispatch declared in           *)
(* src/src/WBTxRx.h.                                                       *)
(*                                                                         *)
(* Cryptography is modelled symbolically: a sealed value is a term that    *)
(* records what was sealed and under which key and nonce, and it opens     *)
(* only under the same key, nonce and associated data.  randombytes_buf is *)
(* modelled as returning a value never returned before.                    *)
(***************************************************************************)
EXTENDS Integers, Sequences, FiniteSets, TLC

(***************************************************************************)
(* Bounds of the model.                                                    *)
(***************************************************************************)
\* Packets offered for injection in one run.
MaxInject == 2
\* Frames the receive loop dispatches in one run.
MaxCount == 4
\* Buffered frames lost in one run.
MaxLost == 2
\* Data packets per session before the nonce counter overflows.
NonceLimit == 2
\* Frames a card buffers between two runs of the receive loop.
MaxQueue == 2

\* The stream indices in use and the payload fed to each (every stream
\* carries a payload of its own).
Streams == {0, 1}
Payload(s) == s + 1

(***************************************************************************)
(* Program constants.                                                      *)
(***************************************************************************)
DEFAULT_ENCRYPTION_SEED == 0
STREAM_INDEX_SESSION_KEY_PACKETS == 128
\* The all-zero session key a Decryptor holds after construction.
ZeroKey == 0
\* Stand-ins for "no value".
NoData == -1
NoKey == -1

(***************************************************************************)
(* libsodium, symbolically.                                                *)
(***************************************************************************)
\* crypto_box_seed_keypair: the key pair derived from a seed.
crypto_box_seed_keypair(seed) == [pk |-> seed, sk |-> seed]

\* The secret two parties share: DH(sk_a, pk_b) = DH(sk_b, pk_a).
BoxSharedKey(pk, sk) == {pk, sk}

\* crypto_box_easy: the message sealed under nonce n for (pk, sk).
\* x counts bit flips applied to the sealed bytes in transit.
crypto_box_easy(m, n, pk, sk) ==
    [m |-> m, n |-> n, shared |-> BoxSharedKey(pk, sk), x |-> 0]

\* crypto_box_open_easy: the message, or NoKey when authentication fails.
crypto_box_open_easy(c, n, pk, sk) ==
    IF c.x = 0 /\ c.n = n /\ c.shared = BoxSharedKey(pk, sk) THEN c.m ELSE NoKey

\* The ChaCha20 stream cipher applied to m under key k and nonce n.
ChaCha20(k, n, m) == [k |-> k, n |-> n, m |-> m, x |-> 0]

\* Payload bytes that were not enciphered.
Cleartext(m) == [k |-> NoKey, n |-> NoKey, m |-> m, x |-> 0]

\* The Poly1305 tag over associated data ad and wire bytes c.
Poly1305(k, n, ad, c) == [k |-> k, n |-> n, ad |-> ad, c |-> c, x |-> 0]

\* crypto_aead_chacha20poly1305_encrypt: ciphertext followed by the tag.
crypto_aead_chacha20poly1305_encrypt(m, ad, npub, k) ==
    LET c == ChaCha20(k, npub, m)
    IN  [ct |-> c, tag |-> Poly1305(k, npub, ad, c)]

\* crypto_aead_chacha20poly1305_decrypt: the message, or NoData (-1).
crypto_aead_chacha20poly1305_decrypt(body, ad, npub, k) ==
    IF body.tag = Poly1305(k, npub, ad, body.ct)
       /\ body.ct.k = k /\ body.ct.n = npub /\ body.ct.x = 0
    THEN body.ct.m
    ELSE NoData


(***************************************************************************)
(* The wire format.                                                        *)
(***************************************************************************)
\* Variant of radio_port_to_uint8_t that leaves the encrypted bit clear.
radio_port_to_uint8_t_NoFlag(encrypted, multiplex_index) ==
    2 * (multiplex_index % 128)

\* RadioPort is a packed bit-field struct { encrypted:1; multiplex_index:7 }
\* copied to one byte: the first field takes the lowest bit.
radio_port_to_uint8_t(encrypted, multiplex_index) ==
    (IF encrypted THEN 1 ELSE 0) + 2 * (multiplex_index % 128)

\* The bit-field members read back from the byte.
RadioPortEncrypted(port) == port % 2 = 1
RadioPortMultiplexIndex(port) == port \div 2

\* WBDataHeader: the bytes sent in the clear and authenticated as AAD.
WBDataHeader(port, nonce, seq) == [port |-> port, nonce |-> nonce, seq |-> seq]

\* The direction bit of the 802.11 header names the role of the unit that
\* injected the frame (Options::use_gnd_identifier).  The transmitter of the
\* link is the air unit, its receiver the ground unit.
TxRole == "air"
RxRole == "gnd"

\* A frame as a card hands it to the engine.
Frame(hdr, body) == [hdr |-> hdr, body |-> body, dir |-> TxRole]

IsSessionKeyPacket(body) == DOMAIN body = {"session_key_nonce", "session_key_data"}
IsDataBody(body) == DOMAIN body = {"ct", "tag"}

(***************************************************************************)
(* State.                                                                  *)
(***************************************************************************)
VARIABLES
    \* Encryptor
    tx_session_key,       \* Encryptor::session_key
    sessionKeyPacket,     \* Encryptor::sessionKeyPacket
    \* transmitter
    m_nonce,              \* WBTxRx::m_nonce
    m_ieee80211_seq,      \* WBTxRx::m_ieee80211_seq
    n_sessions,           \* session keys generated so far
    n_injected,           \* TxStats::n_injected_packets (data packets)
    \* the cards
    rx_queue,             \* per card: frames buffered for the receive loop
    n_lost,               \* history: buffered frames that were lost
    \* Decryptor
    session_key,          \* Decryptor::session_key
    \* receiver
    m_rx_handlers,        \* radio ports with a registered StreamRxHandler
    m_rx_stats,           \* WBTxRx::m_rx_stats
    m_rx_stats_per_card,  \* WBTxRx::m_rx_stats_per_card
    cb_session_count,     \* history: per stream, new_session callbacks invoked
    replaced,             \* history: the keys the Decryptor held and replaced
    last,                 \* history: the callbacks the last dispatched frame caused
    \* one call of the AEAD envelope on its own
    aead,                 \* the inputs drawn and the outputs computed so far
    \* the FEC encoder, the fragments on the air and the FEC decoder
    fec,
    \* a WBTransmitter from its construction on (src/src/WBTransmitter.cpp)
    wbtx,
    \* the RX counters as the RX thread and the caller's threads access them
    rxstats,
    \* one call of the GF(256) region operations or of the Reed-Solomon codec
    gf,
    \* one packet offered for injection, followed by its sizes on the way to the card
    sized,
    \* the TX card the engine injects on, re-evaluated every second
    txcard,
    \* the receive thread of an engine between start_receiving and stop_receiving
    rxloop,
    \* a transmitter whose radiotap header is updated while packets are injected
    rtap,
    \* the blocks a transmitter's FEC encoder closes, for the options it was built with
    fecblk,
    \* a UDPMultiForwarder and the threads that call it
    udp,
    \* a UDPReceiver, its socket and its background thread
    udprx,
    \* one frame from the choice of its radio port to its dispatch at the receiver
    rport,
    \* the radiotap parameters and header under updates from several threads
    rtupd

vars == <<tx_session_key, sessionKeyPacket, m_nonce, m_ieee80211_seq, n_sessions, n_injected,
          rx_queue, n_lost, session_key, m_rx_handlers, m_rx_stats,
          m_rx_stats_per_card, cb_session_count, replaced, last, aead, fec, wbtx, rxstats,
          gf, sized, txcard, rxloop, rtap, fecblk, udp, udprx, rport, rtupd>>

txVars == <<tx_session_key, sessionKeyPacket, m_nonce, m_ieee80211_seq, n_sessions,
            n_injected>>
rxVars == <<session_key, m_rx_handlers, m_rx_stats, m_rx_stats_per_card,
            cb_session_count, replaced, last>>
\* The state of the link: transmitter, cards and receiver.
linkVars == <<txVars, rx_queue, n_lost, rxVars>>
\* The components that are modelled on their own, apart from the four below.
hostVars == <<gf, sized, txcard, rxloop, rtap, fecblk, udp, udprx, rport, rtupd>>
\* What a step of gf leaves alone.
gfOthers == <<linkVars, aead, fec, wbtx, rxstats, sized, txcard, rxloop, rtap, fecblk, udp, udprx, rport, rtupd>>
\* What a step of sized leaves alone.
sizedOthers == <<linkVars, aead, fec, wbtx, rxstats, gf, txcard, rxloop, rtap, fecblk, udp, udprx, rport, rtupd>>
\* What a step of txcard leaves alone.
txcardOthers == <<linkVars, aead, fec, wbtx, rxstats, gf, sized, rxloop, rtap, fecblk, udp, udprx, rport, rtupd>>
\* What a step of rxloop leaves alone.
rxloopOthers == <<linkVars, aead, fec, wbtx, rxstats, gf, sized, txcard, rtap, fecblk, udp, udprx, rport, rtupd>>
\* What a step of rtap leaves alone.
rtapOthers == <<linkVars, aead, fec, wbtx, rxstats, gf, sized, txcard, rxloop, fecblk, udp, udprx, rport, rtupd>>
\* What a step of fecblk leaves alone.
fecblkOthers == <<linkVars, aead, fec, wbtx, rxstats, gf, sized, txcard, rxloop, rtap, udp, udprx, rport, rtupd>>
\* What a step of udp leaves alone.
udpOthers == <<linkVars, aead, fec, wbtx, rxstats, gf, sized, txcard, rxloop, rtap, fecblk, udprx, rport, rtupd>>
\* What a step of udprx leaves alone.
udprxOthers == <<linkVars, aead, fec, wbtx, rxstats, gf, sized, txcard, rxloop, rtap, fecblk, udp, rport, rtupd>>
\* What a step of rport leaves alone.
rportOthers == <<linkVars, aead, fec, wbtx, rxstats, gf, sized, txcard, rxloop, rtap, fecblk, udp, udprx, rtupd>>
\* What a step of rtupd leaves alone.
rtupdOthers == <<linkVars, aead, fec, wbtx, rxstats, gf, sized, txcard, rxloop, rtap, fecblk, udp, udprx, rport>>
\* What a step of the link leaves alone.
offLink == <<aead, fec, wbtx, rxstats, hostVars>>

\* The RX cards (WBTxRx::m_wifi_cards).
Cards == DOMAIN rx_queue

(***************************************************************************)
(* Encryptor (src/src/Encryption.hpp).                                     *)
(***************************************************************************)
\* Encryptor(std::nullopt): the default deterministic key pair.
tx_secretkey == crypto_box_seed_keypair(DEFAULT_ENCRYPTION_SEED).sk
rx_publickey == crypto_box_seed_keypair(DEFAULT_ENCRYPTION_SEED).pk

\* Encryptor::makeSessionKey with randombytes_buf returning r for the key and
\* for the box nonce: the new session key and the announcement sealed from it.
makeSessionKey(r) ==
    [session_key |-> r,
     sessionKeyPacket |->
        [session_key_nonce |-> r,
         session_key_data |-> crypto_box_easy(r, r, rx_publickey, tx_secretkey)]]

\* Variant of makeEncryptedPacketIncludingHeader that seals under the nonce
\* after the one written into the header.
makeEncryptedPacketIncludingHeader_NonceOff(wblockHdr, payload, key) ==
    crypto_aead_chacha20poly1305_encrypt(payload, wblockHdr, wblockHdr.nonce + 1, key)

\* Encryptor::makeEncryptedPacketIncludingHeader: the bytes after the header.
makeEncryptedPacketIncludingHeader(wblockHdr, payload, key) ==
    crypto_aead_chacha20poly1305_encrypt(payload, wblockHdr, wblockHdr.nonce, key)

\* A packet injected with encrypt=false: the payload in the clear, followed by
\* the tag over header and payload.
makeValidatedPacketIncludingHeader(wblockHdr, payload, key) ==
    LET c == Cleartext(payload)
    IN  [ct |-> c, tag |-> Poly1305(key, wblockHdr.nonce, wblockHdr, c)]

(***************************************************************************)
(* Decryptor (src/src/Encryption.hpp).                                     *)
(***************************************************************************)
\* The public key of a unit that was given another key pair.
tx_publickey_Other == crypto_box_seed_keypair(DEFAULT_ENCRYPTION_SEED + 1).pk

\* Decryptor(std::nullopt): the default deterministic key pair.
rx_secretkey == crypto_box_seed_keypair(DEFAULT_ENCRYPTION_SEED).sk
tx_publickey == crypto_box_seed_keypair(DEFAULT_ENCRYPTION_SEED).pk

\* The key crypto_box_open_easy unseals from buf, or NoKey.
OpenSessionKey(buf) ==
    IF IsSessionKeyPacket(buf) /\ DOMAIN buf.session_key_data = {"m", "n", "shared", "x"}
    THEN crypto_box_open_easy(buf.session_key_data, buf.session_key_nonce,
                              tx_publickey, rx_secretkey)
    ELSE NoKey

\* Variant of onNewPacketWfbKey without the memcmp against the key held:
\* every announcement that opens is taken as a new session.
onNewPacketWfbKey_NoCompare(key, buf) ==
    LET new_session_key == OpenSessionKey(buf)
    IN  IF new_session_key = NoKey
        THEN [ret |-> FALSE, session_key |-> key]
        ELSE [ret |-> TRUE, session_key |-> new_session_key]

\* Variant of onNewPacketWfbKey that ignores the result of
\* crypto_box_open_easy: whatever the buffer then holds is compared and kept.
onNewPacketWfbKey_NoOpenCheck(key, buf) ==
    LET new_session_key == OpenSessionKey(buf)
    IN  IF key # new_session_key
        THEN [ret |-> TRUE, session_key |-> new_session_key]
        ELSE [ret |-> FALSE, session_key |-> key]

\* Decryptor::onNewPacketWfbKey: the return value and the key held afterwards.
onNewPacketWfbKey(key, buf) ==
    LET new_session_key == OpenSessionKey(buf)
    IN  IF new_session_key = NoKey
        THEN [ret |-> FALSE, session_key |-> key]
        ELSE IF key # new_session_key
             THEN [ret |-> TRUE, session_key |-> new_session_key]
             ELSE [ret |-> FALSE, session_key |-> key]

\* Variant of decryptPacket that ignores the return value of
\* crypto_aead_chacha20poly1305_decrypt and hands on what is in the buffer.
decryptPacket_NoAuth(key, wblockHdr, encryptedPayload) ==
    IF IsDataBody(encryptedPayload) THEN encryptedPayload.ct.m ELSE NoData

\* Variant of decryptPacket that does not bind the header it was handed: the
\* tag is checked against the associated data it was computed over.
decryptPacket_NoAad(key, wblockHdr, encryptedPayload) ==
    IF IsDataBody(encryptedPayload)
    THEN crypto_aead_chacha20poly1305_decrypt(encryptedPayload, encryptedPayload.tag.ad,
                                              wblockHdr.nonce, key)
    ELSE NoData

\* Decryptor::decryptPacket: the decrypted payload, or NoData for std::nullopt.
decryptPacket(key, wblockHdr, encryptedPayload) ==
    IF IsDataBody(encryptedPayload)
    THEN crypto_aead_chacha20poly1305_decrypt(encryptedPayload, wblockHdr,
                                              wblockHdr.nonce, key)
    ELSE NoData

\* The check of a packet that was injected with encrypt=false: the payload,
\* or NoData when the tag does not match header and payload.
validatePacket(key, wblockHdr, payload) ==
    IF IsDataBody(payload)
       /\ payload.tag = Poly1305(key, wblockHdr.nonce, wblockHdr, payload.ct)
       /\ payload.ct.k = NoKey /\ payload.ct.x = 0
    THEN payload.ct.m
    ELSE NoData


(***************************************************************************)
(* The radio: a frame handed to the radio is heard by every card and is    *)
(* buffered there until the receive loop pulls it; a card whose buffer is  *)
(* full misses the frame.                                                  *)
(***************************************************************************)
Enqueue(q, f) == IF Len(q) < MaxQueue THEN Append(q, f) ELSE q

RECURSIVE EnqueueAll(_, _)
EnqueueAll(q, frames) ==
    IF frames = <<>> THEN q
    ELSE EnqueueAll(Enqueue(q, Head(frames)), Tail(frames))

\* The sequence-control counter after one more injected frame (uint16_t).
NextSeq(seq) == (seq + 16) % 65536

\* The frame WBTxRx::send_session_key hands to the radio.
SessionKeyFrame(pkt, seq) ==
    Frame(WBDataHeader(STREAM_INDEX_SESSION_KEY_PACKETS, 0, seq), pkt)

(***************************************************************************)
(* Transmitter.                                                            *)
(***************************************************************************)
\* announce_session_key_if_needed: the frames sent when the announce
\* timestamp has (due) or has not been reached.
announce_session_key_if_needed(due, pkt, seq) ==
    IF due THEN <<SessionKeyFrame(pkt, seq)>> ELSE <<>>

\* The data frame for one injected packet.
DataFrame(stream_index, data, encrypt, nonce, seq, key) ==
    LET hdr == WBDataHeader(radio_port_to_uint8_t(encrypt, stream_index), nonce, seq)
    IN  Frame(hdr, IF encrypt
                   THEN makeEncryptedPacketIncludingHeader(hdr, data, key)
                   ELSE makeValidatedPacketIncludingHeader(hdr, data, key))

\* The nonce counter has run out after the packet with this nonce.
resetOnOverflow(nonce) == nonce + 1 >= NonceLimit

\* tx_inject_packet(stream_index, data, data_len, encrypt); due: the announce
\* timestamp has been reached.
tx_inject_packet(stream_index, data, encrypt, due) ==
    LET ann      == announce_session_key_if_needed(due, sessionKeyPacket, m_ieee80211_seq)
        seq1     == IF due THEN NextSeq(m_ieee80211_seq) ELSE m_ieee80211_seq
        frame    == DataFrame(stream_index, data, encrypt, m_nonce, seq1, tx_session_key)
        seq2     == NextSeq(seq1)
        overflow == resetOnOverflow(m_nonce)
        new      == makeSessionKey(n_sessions + 1)
        rekey    == IF overflow THEN <<SessionKeyFrame(new.sessionKeyPacket, seq2)>> ELSE <<>>
        frames   == ann \o <<frame>> \o rekey
    IN  /\ n_injected < MaxInject
        /\ n_injected' = n_injected + 1
        /\ rx_queue' = [c \in Cards |-> EnqueueAll(rx_queue[c], frames)]
        /\ m_ieee80211_seq' = IF overflow THEN NextSeq(seq2) ELSE seq2
        /\ IF overflow
           THEN /\ tx_session_key' = new.session_key
                /\ sessionKeyPacket' = new.sessionKeyPacket
                /\ n_sessions' = n_sessions + 1
                /\ m_nonce' = 0
           ELSE /\ m_nonce' = m_nonce + 1
                /\ UNCHANGED <<tx_session_key, sessionKeyPacket, n_sessions>>
        /\ UNCHANGED <<rxVars, n_lost, offLink>>

(***************************************************************************)
(* Receiver.                                                               *)
(***************************************************************************)
\* rx_register_stream_handler / rx_unregister_stream_handler.
rx_register_stream_handler(radio_port) ==
    /\ radio_port \notin m_rx_handlers
    /\ m_rx_handlers' = m_rx_handlers \cup {radio_port}
    /\ UNCHANGED <<txVars, rx_queue, n_lost, session_key, m_rx_stats, m_rx_stats_per_card,
                   cb_session_count, replaced, last, offLink>>

rx_unregister_stream_handler(radio_port) ==
    /\ radio_port \in m_rx_handlers
    /\ m_rx_handlers' = m_rx_handlers \ {radio_port}
    /\ UNCHANGED <<txVars, rx_queue, n_lost, session_key, m_rx_stats, m_rx_stats_per_card,
                   cb_session_count, replaced, last, offLink>>

\* process_received_data_packet: the payload handed on, or NoData.
process_received_data_packet(key, hdr, pkt_payload) ==
    IF RadioPortEncrypted(hdr.port)
    THEN decryptPacket(key, hdr, pkt_payload)
    ELSE validatePacket(key, hdr, pkt_payload)

\* on_valid_packet: the handlers whose data callback is invoked.
on_valid_packet(handlers, stream_index) == {h \in handlers : h = stream_index}

\* A frame with this radio port is a session-key frame.
IsSessionKeyPort(port) == port = STREAM_INDEX_SESSION_KEY_PACKETS

\* The counters of RxStats / RxStatsPerCard after one more frame.
CountPacket(stats, valid) ==
    [count_p_any |-> stats.count_p_any + 1,
     count_p_valid |-> stats.count_p_valid + (IF valid THEN 1 ELSE 0)]

\* History: what the transmitter sealed into a data frame (read off the tag),
\* NoSeal for a frame that carries no data tag.
NoSeal == [port |-> NoData, key |-> NoKey, data |-> NoData]
SealedAs(pkt) ==
    IF IsDataBody(pkt.body)
    THEN [port |-> pkt.body.tag.ad.port, key |-> pkt.body.tag.k, data |-> pkt.body.ct.m]
    ELSE NoSeal

\* The direction filter: a frame that carries the receiver's own role was
\* injected by a unit of the same role (the AR9271 hands the unit's own
\* injected frames back as received).
DiscardsDirection_Never(own_role, dir) == FALSE

DiscardsDirection(own_role, dir) == dir = own_role

\* on_new_packet for a frame the direction filter discards: it is counted as
\* received and goes no further.
on_discarded_packet(wlan_idx, pkt, tampered) ==
    /\ m_rx_stats.count_p_any < MaxCount
    /\ rx_queue' = [rx_queue EXCEPT ![wlan_idx] = Tail(@)]
    /\ m_rx_stats' = CountPacket(m_rx_stats, FALSE)
    /\ m_rx_stats_per_card' =
          [m_rx_stats_per_card EXCEPT ![wlan_idx] = CountPacket(@, FALSE)]
    /\ last' = [kind |-> "discarded", tampered |-> tampered, opened |-> NoKey,
                sealed |-> SealedAs(pkt), reset |-> FALSE, cb_session |-> {},
                data |-> NoData, cb_packet |-> {}]
    /\ UNCHANGED <<txVars, session_key, m_rx_handlers, cb_session_count, replaced,
                   n_lost, offLink>>

\* on_new_packet(wlan_idx, hdr, pkt): one frame pulled from card wlan_idx is
\* dispatched; tampered: pkt is not the frame the card heard.
on_new_packet(wlan_idx, pkt, tampered) ==
    LET res == onNewPacketWfbKey(session_key, pkt.body)
        data == process_received_data_packet(session_key, pkt.hdr, pkt.body)
        isKey == IsSessionKeyPort(pkt.hdr.port)
        newSession == isKey /\ res.ret
        valid == ~isKey /\ data # NoData
    IN  IF DiscardsDirection(RxRole, pkt.dir)
        THEN on_discarded_packet(wlan_idx, pkt, tampered)
        ELSE
        /\ m_rx_stats.count_p_any < MaxCount
        /\ rx_queue' = [rx_queue EXCEPT ![wlan_idx] = Tail(@)]
        /\ m_rx_stats' = CountPacket(m_rx_stats, valid)
        /\ m_rx_stats_per_card' =
              [m_rx_stats_per_card EXCEPT ![wlan_idx] = CountPacket(@, valid)]
        /\ session_key' = IF isKey THEN res.session_key ELSE session_key
        /\ replaced' = IF newSession THEN replaced \cup {session_key} ELSE replaced
        /\ cb_session_count' =
              [s \in Streams |-> IF newSession /\ s \in m_rx_handlers
                                 THEN cb_session_count[s] + 1
                                 ELSE cb_session_count[s]]
        /\ last' = [kind |-> IF isKey THEN "key" ELSE "data",
                    tampered |-> tampered,
                    opened |-> IF isKey THEN OpenSessionKey(pkt.body) ELSE NoKey,
                    sealed |-> SealedAs(pkt),
                    reset |-> newSession,
                    cb_session |-> IF newSession THEN m_rx_handlers ELSE {},
                    data |-> IF valid THEN data ELSE NoData,
                    cb_packet |-> IF valid
                                  THEN on_valid_packet(m_rx_handlers,
                                          RadioPortMultiplexIndex(pkt.hdr.port))
                                  ELSE {}]
        /\ UNCHANGED <<txVars, m_rx_handlers, n_lost, offLink>>

\* The value of last before any frame was dispatched.
NoPacket == [kind |-> "none"]

\* loop_iter(rx_index): the receive loop pulls the next frame of one card.
loop_iter(rx_index) ==
    /\ rx_queue[rx_index] # <<>>
    /\ on_new_packet(rx_index, Head(rx_queue[rx_index]), FALSE)

(***************************************************************************)
(* The environment: loss and corruption in transit.                        *)
(***************************************************************************)
\* A frame is lost before the card hands it on.
DropFrame(c) ==
    /\ rx_queue[c] # <<>>
    /\ n_lost < MaxLost
    /\ n_lost' = n_lost + 1
    /\ rx_queue' = [rx_queue EXCEPT ![c] = Tail(@)]
    /\ UNCHANGED <<txVars, rxVars, offLink>>

Flip(b) == 1 - b

\* Byte v with the bit of weight w inverted.
FlipBit(v, w) == IF (v \div w) % 2 = 1 THEN v - w ELSE v + w

\* The frames that differ from f in one part.
Tampered(f) ==
    {[f EXCEPT !.hdr.port = FlipBit(@, 1)],
     [f EXCEPT !.hdr.port = FlipBit(@, 2)],
     [f EXCEPT !.hdr.port = FlipBit(@, 128)],
     [f EXCEPT !.hdr.nonce = @ + 1],
     [f EXCEPT !.hdr.seq = NextSeq(@)]}
    \cup (IF IsDataBody(f.body)
          THEN {[f EXCEPT !.body.ct.x = Flip(@)], [f EXCEPT !.body.tag.x = Flip(@)]}
          ELSE {[f EXCEPT !.body.session_key_data.x = Flip(@)],
                [f EXCEPT !.body.session_key_nonce = @ + 1]})

\* The next frame of a card reaches the receive loop modified in one part.
loop_iter_tampered(rx_index) ==
    /\ rx_queue[rx_index] # <<>>
    /\ \E g \in Tampered(Head(rx_queue[rx_index])) : on_new_packet(rx_index, g, TRUE)

(***************************************************************************)
(* The link: transmitter, cards and receiver.                              *)
(***************************************************************************)
\* The state after construction: the transmitter has made its first session
\* key, the Decryptor holds the all-zero key, nothing is buffered.
LinkInit(cards) ==
    /\ tx_session_key = makeSessionKey(1).session_key
    /\ sessionKeyPacket = makeSessionKey(1).sessionKeyPacket
    /\ n_sessions = 1
    /\ n_injected = 0
    /\ m_nonce = 0
    /\ m_ieee80211_seq = 0
    /\ rx_queue = [c \in cards |-> <<>>]
    /\ n_lost = 0
    /\ session_key = ZeroKey
    /\ m_rx_handlers = {}
    /\ m_rx_stats = [count_p_any |-> 0, count_p_valid |-> 0]
    /\ m_rx_stats_per_card = [c \in cards |-> [count_p_any |-> 0, count_p_valid |-> 0]]
    /\ cb_session_count = [s \in Streams |-> 0]
    /\ replaced = {}
    /\ last = NoPacket

\* No call of the AEAD envelope on its own is under way.
AeadIdle == aead = [stage |-> "idle"]

\* The FEC encoder and decoder are not in use.
FecIdle == fec = [stage |-> "idle"]

\* No WBTransmitter is under construction or running.
TxIdle == wbtx = [stage |-> "idle"]

\* No thread of the caller reads or resets the RX counters.
StatsIdle == rxstats = [stage |-> "idle"]

\* No call of the GF(256) and Reed-Solomon routines is under way.
GfIdle == gf = [stage |-> "idle"]

\* No packet is being sized.
SizedIdle == sized = [stage |-> "idle"]

\* No engine is choosing its TX card.
TxcardIdle == txcard = [stage |-> "idle"]

\* No engine is starting or stopping its receive thread.
RxloopIdle == rxloop = [stage |-> "idle"]

\* No radiotap header is being updated.
RtapIdle == rtap = [stage |-> "idle"]

\* No FEC encoder is being configured.
FecblkIdle == fecblk = [stage |-> "idle"]

\* No UDPMultiForwarder is in use.
UdpIdle == udp = [stage |-> "idle"]

\* No UDPReceiver is in use.
UdprxIdle == udprx = [stage |-> "idle"]

\* No radio port is being followed.
RportIdle == rport = [stage |-> "idle"]

\* no update of the radiotap header is modelled
RtupdIdle == rtupd = [stage |-> "idle"]

\* None of the components that are modelled on their own is in use.
HostIdle == GfIdle /\ SizedIdle /\ TxcardIdle /\ RxloopIdle /\ RtapIdle /\ FecblkIdle /\ UdpIdle /\ UdprxIdle /\ RportIdle /\ RtupdIdle
\* Every component modelled on its own is idle, except gf.
GfOthersIdle == SizedIdle /\ TxcardIdle /\ RxloopIdle /\ RtapIdle /\ FecblkIdle /\ UdpIdle /\ UdprxIdle /\ RportIdle /\ RtupdIdle
\* Every component modelled on its own is idle, except sized.
SizedOthersIdle == GfIdle /\ TxcardIdle /\ RxloopIdle /\ RtapIdle /\ FecblkIdle /\ UdpIdle /\ UdprxIdle /\ RportIdle /\ RtupdIdle
\* Every component modelled on its own is idle, except txcard.
TxcardOthersIdle == GfIdle /\ SizedIdle /\ RxloopIdle /\ RtapIdle /\ FecblkIdle /\ UdpIdle /\ UdprxIdle /\ RportIdle /\ RtupdIdle
\* Every component modelled on its own is idle, except rxloop.
RxloopOthersIdle == GfIdle /\ SizedIdle /\ TxcardIdle /\ RtapIdle /\ FecblkIdle /\ UdpIdle /\ UdprxIdle /\ RportIdle /\ RtupdIdle
\* Every component modelled on its own is idle, except rtap.
RtapOthersIdle == GfIdle /\ SizedIdle /\ TxcardIdle /\ RxloopIdle /\ FecblkIdle /\ UdpIdle /\ UdprxIdle /\ RportIdle /\ RtupdIdle
\* Every component modelled on its own is idle, except fecblk.
FecblkOthersIdle == GfIdle /\ SizedIdle /\ TxcardIdle /\ RxloopIdle /\ RtapIdle /\ UdpIdle /\ UdprxIdle /\ RportIdle /\ RtupdIdle
\* Every component modelled on its own is idle, except udp.
UdpOthersIdle == GfIdle /\ SizedIdle /\ TxcardIdle /\ RxloopIdle /\ RtapIdle /\ FecblkIdle /\ UdprxIdle /\ RportIdle /\ RtupdIdle
\* Every component modelled on its own is idle, except udprx.
UdprxOthersIdle == GfIdle /\ SizedIdle /\ TxcardIdle /\ RxloopIdle /\ RtapIdle /\ FecblkIdle /\ UdpIdle /\ RportIdle /\ RtupdIdle
\* Every component modelled on its own is idle, except rport.
RportOthersIdle == GfIdle /\ SizedIdle /\ TxcardIdle /\ RxloopIdle /\ RtapIdle /\ FecblkIdle /\ UdpIdle /\ UdprxIdle /\ RtupdIdle
\* Every component modelled on its own is idle, except rtupd.
RtupdOthersIdle == GfIdle /\ SizedIdle /\ TxcardIdle /\ RxloopIdle /\ RtapIdle /\ FecblkIdle /\ UdpIdle /\ UdprxIdle /\ RportIdle

\* The session-key protocol: two cards, one encrypted stream, lossy radio.
Init == LinkInit({0, 1}) /\ AeadIdle /\ FecIdle /\ TxIdle /\ StatsIdle /\ HostIdle

Next ==
    \/ \E due \in BOOLEAN : tx_inject_packet(0, 1, TRUE, due)
    \/ rx_register_stream_handler(0)
    \/ rx_unregister_stream_handler(0)
    \/ \E c \in Cards : loop_iter(c)
    \/ \E c \in Cards : DropFrame(c)

Spec == Init /\ [][Next]_vars

\* The data path: one card, two streams, encrypted and validated packets,
\* loss and corruption in transit.
InitData == LinkInit({0}) /\ AeadIdle /\ FecIdle /\ TxIdle /\ StatsIdle /\ HostIdle

NextData ==
    \/ \E s \in Streams, e \in BOOLEAN, due \in BOOLEAN :
          tx_inject_packet(s, Payload(s), e, due)
    \/ \E s \in Streams : rx_register_stream_handler(s)
    \/ \E s \in Streams : rx_unregister_stream_handler(s)
    \/ \E c \in Cards : loop_iter(c)
    \/ \E c \in Cards : loop_iter_tampered(c)
    \/ \E c \in Cards : DropFrame(c)

SpecData == InitData /\ [][NextData]_vars

(***************************************************************************)
(* An engine pair with default keys: the air unit injects on stream 7, the *)
(* ground unit receives on one card, and the card also hands back the      *)
(* frames the ground unit itself injects.                                  *)
(***************************************************************************)
\* The stream of the loopback scenario and the payloads injected on it (the
\* bytes 01 02 03 and 03 02 01, each read as one number).
LOOPBACK_STREAM == 7
LoopbackPayloads == {66051, 197121}

\* The Encryptor of the ground unit's own transmitter, with its session key.
OwnEncryptor == makeSessionKey(1000)

\* The frames the ground unit injects: they carry its own direction bit.
OwnFrames ==
    {[SessionKeyFrame(OwnEncryptor.sessionKeyPacket, 0) EXCEPT !.dir = RxRole]}
    \cup {[DataFrame(LOOPBACK_STREAM, d, TRUE, 0, 16, OwnEncryptor.session_key)
              EXCEPT !.dir = RxRole] : d \in LoopbackPayloads}

\* The ground unit injects a frame and its card hands the frame back as
\* received.
InjectedFrameHandedBack(c, frame) ==
    /\ Len(rx_queue[c]) < MaxQueue
    /\ rx_queue' = [rx_queue EXCEPT ![c] = Enqueue(@, frame)]
    /\ UNCHANGED <<txVars, rxVars, n_lost, offLink>>

InitLoopback == LinkInit({0}) /\ AeadIdle /\ FecIdle /\ TxIdle /\ StatsIdle /\ HostIdle

NextLoopback ==
    \/ \E d \in LoopbackPayloads, due \in BOOLEAN :
          tx_inject_packet(LOOPBACK_STREAM, d, TRUE, due)
    \/ rx_register_stream_handler(LOOPBACK_STREAM)
    \/ rx_unregister_stream_handler(LOOPBACK_STREAM)
    \/ \E c \in Cards, g \in OwnFrames : InjectedFrameHandedBack(c, g)
    \/ \E c \in Cards : loop_iter(c)

SpecLoopback == InitLoopback /\ [][NextLoopback]_vars

(***************************************************************************)
(* The AEAD envelope on its own: one packet is sealed by an Encryptor,     *)
(* possibly modified in transit, and opened by a Decryptor.                *)
(***************************************************************************)
\* The inputs drawn: headers, payloads (0: the empty payload) and keys.
AeadPorts == {radio_port_to_uint8_t(e, s) : e \in BOOLEAN, s \in Streams}
AeadNonces == {0, 1, 255}
AeadSeqs == {0, 16}
AeadPayloads == {0, 1, 2}
AeadKeys == {1, 2}
AeadRxKeys == {ZeroKey} \cup AeadKeys

\* The Encryptor holds key, the Decryptor rx_key; H and P are the arguments.
InitAead ==
    /\ LinkInit({0})
    /\ FecIdle
    /\ TxIdle
    /\ StatsIdle /\ HostIdle
    /\ aead \in {[stage |-> "drawn", H |-> WBDataHeader(p, n, q), P |-> m, key |-> k,
                  rx_key |-> rk, wire |-> NoData, tampered |-> FALSE, out |-> NoData] :
                 p \in AeadPorts, n \in AeadNonces, q \in AeadSeqs, m \in AeadPayloads,
                 k \in AeadKeys, rk \in AeadRxKeys}

\* Encryptor::makeEncryptedPacketIncludingHeader(H, P).
AeadSeal ==
    /\ aead.stage = "drawn"
    /\ aead' = [aead EXCEPT !.stage = "sealed",
                            !.wire = makeEncryptedPacketIncludingHeader(aead.H, aead.P, aead.key)]
    /\ UNCHANGED <<linkVars, fec, wbtx, rxstats, hostVars>>

\* The packet is modified in one part on its way.
AeadTamper ==
    /\ aead.stage = "sealed"
    /\ ~aead.tampered
    /\ \E g \in Tampered(Frame(aead.H, aead.wire)) :
          aead' = [aead EXCEPT !.H = g.hdr, !.wire = g.body, !.tampered = TRUE]
    /\ UNCHANGED <<linkVars, fec, wbtx, rxstats, hostVars>>

\* Decryptor::decryptPacket(H, wire).
AeadOpen ==
    /\ aead.stage = "sealed"
    /\ aead' = [aead EXCEPT !.stage = "opened",
                            !.out = decryptPacket(aead.rx_key, aead.H, aead.wire)]
    /\ UNCHANGED <<linkVars, fec, wbtx, rxstats, hostVars>>

NextAead ==
    \/ AeadSeal
    \/ AeadTamper
    \/ AeadOpen

SpecAead == InitAead /\ [][NextAead]_vars

(***************************************************************************)
(* Forward error correction: the fixed-k encoder, the radio and the        *)
(* decoder with its delivery policy.  A shard is the number of the payload *)
(* it carries (the n-th payload fed is n); with one parity fragment per    *)
(* block the parity shard is the XOR of the primary shards.                *)
(***************************************************************************)
\* TOptions::fec_k and TOptions::fec_percentage.
FEC_K == 2
FEC_PERCENTAGE == 50

\* FECEncoder::calculateN: k primaries and ceil(k * percentage / 100) parities.
calculateN(k, percentage) == k + (k * percentage + 99) \div 100
FecN == calculateN(FEC_K, FEC_PERCENTAGE)

\* The decoder's parameters.
FORWARD_HORIZON == 2
RING_SIZE == 2

\* The blocks the transmitter fills in one run.
FecBlocks == 0 .. 2

\* The fragments lost in one run: enough for one block to lose more than r.
FecMaxLost == (FecN - FEC_K) + 1

\* Variant of FecNonce that leaves the block index out of the nonce.
FecNonce_NoBlock(block_idx, fragment_idx) == fragment_idx

\* nonce = (block_idx << 8) | fragment_idx.
FecNonce(block_idx, fragment_idx) == block_idx * 256 + fragment_idx
NonceBlockIdx(nonce) == nonce \div 256
NonceFragmentIdx(nonce) == nonce % 256

\* Bitwise exclusive or of two naturals.
RECURSIVE BitXor(_, _)
BitXor(a, b) ==
    IF a = 0 THEN b
    ELSE IF b = 0 THEN a
    ELSE (((a % 2) + (b % 2)) % 2) + 2 * BitXor(a \div 2, b \div 2)

\* The exclusive or of the shards of a set of fragments.
RECURSIVE XorAll(_)
XorAll(frs) ==
    IF frs = {} THEN 0
    ELSE LET f == CHOOSE f \in frs : TRUE
         IN  BitXor(f.shard, XorAll(frs \ {f}))

\* The payload stored as primary fragment i of block b.
FedPayload(b, i) == b * FEC_K + i + 1

\* The k + r fragments the encoder emits when block b closes.
EncodeBlock(b) ==
    LET primaries == {[nonce |-> FecNonce(b, i), shard |-> FedPayload(b, i)] :
                         i \in 0 .. FEC_K - 1}
    IN  primaries \cup {[nonce |-> FecNonce(b, i), shard |-> XorAll(primaries)] :
                           i \in FEC_K .. FecN - 1}

\* The fragments emitted after fed payloads: those of the closed blocks.
Emitted(fed) == UNION {EncodeBlock(b) : b \in 0 .. (fed \div FEC_K) - 1}

\* The fragments the decoder holds for block b.
BlockFrags(d, b) == {f \in d.frags : NonceBlockIdx(f.nonce) = b}

\* A block is complete as soon as any k of its shards have arrived.
Complete(d, b) == Cardinality(BlockFrags(d, b)) >= FEC_K

\* Variant of RecoverPrimary without the decoding step: a primary that did
\* not arrive is handed on as zeros.
RecoverPrimary_NoDecode(frs, i) ==
    IF \E f \in frs : NonceFragmentIdx(f.nonce) = i
    THEN (CHOOSE f \in frs : NonceFragmentIdx(f.nonce) = i).shard
    ELSE 0

\* Primary i of a complete block: the shard that arrived, or the one decoded
\* from the k shards that did.
RecoverPrimary(frs, i) ==
    IF \E f \in frs : NonceFragmentIdx(f.nonce) = i
    THEN (CHOOSE f \in frs : NonceFragmentIdx(f.nonce) = i).shard
    ELSE XorAll(frs)

\* The primaries of a block from index i on, in index order: all of them
\* when the block is complete, else the ones that arrived.
RECURSIVE PrimariesFrom(_, _, _)
PrimariesFrom(frs, i, complete) ==
    IF i >= FEC_K THEN <<>>
    ELSE (IF complete \/ \E f \in frs : NonceFragmentIdx(f.nonce) = i
          THEN <<RecoverPrimary(frs, i)>> ELSE <<>>)
         \o PrimariesFrom(frs, i + 1, complete)

\* The active blocks: those the decoder holds state for (created when the
\* first fragment of the block is seen).
ActiveBlocks(d) == {NonceBlockIdx(f.nonce) : f \in d.frags}

\* The oldest active block.
OldestActive(d) == CHOOSE b \in ActiveBlocks(d) : \A c \in ActiveBlocks(d) : b <= c

\* The block at the head of the queue is finished: its primaries go to the
\* application, all of them when it is complete, else (the block is declared
\* lost for cause) the ones that arrived.
FinishBlock(d, cause) ==
    [frags |-> d.frags \ BlockFrags(d, d.next),
     next |-> d.next + 1,
     delivered |-> d.delivered
                   \o PrimariesFrom(BlockFrags(d, d.next), 0, Complete(d, d.next)),
     evicted |-> IF Complete(d, d.next) THEN d.evicted
                 ELSE d.evicted \cup {[block |-> d.next, cause |-> cause]}]

\* Op applied to the value of e: e is evaluated once, before Op.
Apply(Op(_), e) == CHOOSE y \in {Op(x) : x \in {e}} : TRUE

\* Blocks are delivered in block_idx order: the complete blocks at the head
\* of the queue are released.
RECURSIVE Release(_)
Release(d) ==
    IF Complete(d, d.next) THEN Apply(Release, FinishBlock(d, "complete")) ELSE d

\* The blocks up to block upto are finished.
RECURSIVE FinishThrough(_, _, _)
FinishThrough(d, upto, cause) ==
    IF d.next <= upto
    THEN Apply(LAMBDA x : FinishThrough(x, upto, cause), FinishBlock(d, cause))
    ELSE d

\* The oldest active block (and with it the blocks before it, of which
\* nothing was seen) is declared lost and the queue is released.
EvictOldest(d, cause) ==
    Apply(Release, FinishThrough(d, OldestActive(d), cause))

\* The ring holds at most RING_SIZE active blocks: while there are more, the
\* oldest is force-evicted.
RECURSIVE RingTrim(_)
RingTrim(d) ==
    IF Cardinality(ActiveBlocks(d)) > RING_SIZE
    THEN Apply(RingTrim, EvictOldest(d, "ring"))
    ELSE d

\* Variant of ForwardProgress that never declares a block lost.
ForwardProgress_Never(d, b) == d

\* Forward-progress eviction: block b has just finished; the incomplete
\* blocks FORWARD_HORIZON or more behind it are declared lost.
RECURSIVE ForwardProgress(_, _)
ForwardProgress(d, b) ==
    IF d.next + FORWARD_HORIZON <= b
    THEN Apply(LAMBDA x : ForwardProgress(x, b),
               Apply(Release, FinishBlock(d, "horizon")))
    ELSE d

\* The decoder is handed one fragment: late arrivals, duplicates and
\* fragments of a complete block are discarded.
OnFragment(d, f) ==
    LET b == NonceBlockIdx(f.nonce)
    IN  IF b < d.next \/ Complete(d, b) \/ \E g \in d.frags : g.nonce = f.nonce
        THEN d
        ELSE Apply(LAMBDA d1 : IF Complete(d1, b)
                                THEN Apply(LAMBDA x : ForwardProgress(x, b), Release(d1))
                                ELSE d1,
                   RingTrim([d EXCEPT !.frags = @ \cup {f}]))

\* The fragments that are on the air: emitted and not lost.
Air == {f \in Emitted(fec.fed) : f.nonce \notin fec.lost}

\* Block b was delivered complete.
DeliveredComplete(d, b) == b < d.next /\ \A e \in d.evicted : e.block # b

\* The fragments of block b received so far, as far as recorded: the first k,
\* until the block is delivered complete.
GotOf(b) == {n \in fec.got : NonceBlockIdx(n) = b}

\* Block b has received k of its fragments.
HasK(b) == DeliveredComplete(fec.dec, b) \/ Cardinality(GotOf(b)) >= FEC_K

\* The record of received fragments, given the decoder's state.
Recorded(got, d) == {n \in got : ~DeliveredComplete(d, NonceBlockIdx(n))}

\* WBTransmitter::feedPacket with FEC enabled: the packet goes to the encoder.
FecFeed ==
    /\ fec.stage = "run"
    /\ fec.fed < FEC_K * Cardinality(FecBlocks)
    /\ fec' = [fec EXCEPT !.fed = @ + 1]
    /\ UNCHANGED <<linkVars, aead, wbtx, rxstats, hostVars>>

\* A fragment on the air reaches the decoder, on some card, once more.
FecReceive(f) ==
    /\ fec.stage = "run"
    /\ f \in Air
    /\ \E d \in {OnFragment(fec.dec, f)} :
          fec' = [fec EXCEPT
                    !.got = Recorded(IF HasK(NonceBlockIdx(f.nonce)) THEN @
                                     ELSE @ \cup {f.nonce}, d),
                    !.dec = d,
                    !.overtaken =
                        @ \/ \E b \in 0 .. NonceBlockIdx(f.nonce) - FORWARD_HORIZON : ~HasK(b)]
    /\ UNCHANGED <<linkVars, aead, wbtx, rxstats, hostVars>>

\* A fragment no card has received is lost (of a block that has not yet
\* received k fragments: what happens to the others changes nothing).
FecLose(f) ==
    /\ fec.stage = "run"
    /\ f \in Air
    /\ f.nonce \notin fec.got
    /\ ~HasK(NonceBlockIdx(f.nonce))
    /\ Cardinality(fec.lost) < FecMaxLost
    /\ fec' = [fec EXCEPT !.lost = @ \cup {f.nonce}]
    /\ UNCHANGED <<linkVars, aead, wbtx, rxstats, hostVars>>

\* Nothing of block b is in flight any more: each of its fragments has
\* arrived or is lost.
Settled(b) == \A f \in EncodeBlock(b) : f.nonce \in fec.got \cup fec.lost

\* Timeout eviction: blocks are open and BLOCK_TIMEOUT has passed without
\* the oldest block completing.  BLOCK_TIMEOUT is long against the time a
\* fragment is in flight: when it expires, nothing of the blocks up to the
\* oldest active one is in flight any more.
FecTimeout ==
    /\ fec.stage = "run"
    /\ fec.dec.frags # {}
    /\ \A b \in fec.dec.next .. OldestActive(fec.dec) : HasK(b) \/ Settled(b)
    /\ \E d \in {EvictOldest(fec.dec, "timeout")} :
          fec' = [fec EXCEPT !.dec = d, !.got = Recorded(@, d)]
    /\ UNCHANGED <<linkVars, aead, wbtx, rxstats, hostVars>>

\* A fragment that has not arrived yet, of a block short of k, arrives.
FecArrive ==
    \E f \in Air :
       /\ f.nonce \notin fec.got
       /\ ~HasK(NonceBlockIdx(f.nonce))
       /\ FecReceive(f)

InitFec ==
    /\ LinkInit({0})
    /\ AeadIdle
    /\ TxIdle
    /\ StatsIdle /\ HostIdle
    /\ fec = [stage |-> "run", fed |-> 0, lost |-> {}, got |-> {},
              dec |-> [frags |-> {}, next |-> 0, delivered |-> <<>>, evicted |-> {}],
              overtaken |-> FALSE]

NextFec ==
    \/ FecFeed
    \/ \E f \in Air : FecReceive(f)
    \/ \E f \in Air : FecLose(f)
    \/ FecTimeout

SpecFec == InitFec /\ [][NextFec]_vars

\* The decoder's timer runs: a timeout that stays due is eventually handled;
\* and while fragments of blocks short of k stay on the air, one arrives.
SpecFecLive == SpecFec /\ WF_vars(FecTimeout) /\ WF_vars(FecArrive)

(***************************************************************************)
(* WBTransmitter (src/src/WBTransmitter.cpp) from its construction on,     *)
(* with the Encryptor it owns.  Time is counted in units of 10 ms.  The    *)
(* packets handed to the radio are kept in wbtx.out, in emission order.    *)
(***************************************************************************)
\* The key sizes of crypto_box.
crypto_box_SECRETKEYBYTES == 32
crypto_box_PUBLICKEYBYTES == 32

\* The announce interval (1 s), the sleep between two announcements of the
\* startup burst (10 ms) and the number of announcements of the burst.
SESSION_KEY_ANNOUNCE_DELTA == 100
STARTUP_ANNOUNCE_SLEEP == 1
STARTUP_ANNOUNCEMENTS == 5

\* The largest payload accepted for injection.
MAX_PACKET_PAYLOAD_SIZE == 1457

\* Accepted calls of feedPacket and clock advances in one run; the block
\* index at which the encoder's nonce space is exhausted.
MaxFeed == 6
MaxTicks == 2
MaxBlockIdx == 2

\* A public key of low order: crypto_box_easy computes no shared secret for
\* it and returns -1.
LowOrderPoint == 255

\* The keypair argument: std::nullopt, or the path of a keyfile that opens or
\* not, holds size bytes, the secret key first and the public key after it.
NoKeypair == [file |-> FALSE, opens |-> FALSE, size |-> 0, sk |-> 0, pk |-> 0]
KeyFile(opens, size, pk) == [file |-> TRUE, opens |-> opens, size |-> size, sk |-> 1, pk |-> pk]
KeyFileSizes == {0, crypto_box_SECRETKEYBYTES - 1, crypto_box_SECRETKEYBYTES,
                 crypto_box_SECRETKEYBYTES + crypto_box_PUBLICKEYBYTES - 1,
                 crypto_box_SECRETKEYBYTES + crypto_box_PUBLICKEYBYTES,
                 crypto_box_SECRETKEYBYTES + crypto_box_PUBLICKEYBYTES + 1}
KeyPairs ==
    {NoKeypair, KeyFile(FALSE, crypto_box_SECRETKEYBYTES + crypto_box_PUBLICKEYBYTES, 2),
     KeyFile(TRUE, crypto_box_SECRETKEYBYTES + crypto_box_PUBLICKEYBYTES, LowOrderPoint)}
    \cup {KeyFile(TRUE, n, 2) : n \in KeyFileSizes}

\* fread(ptr, size, 1, fp) with the file position at pos: 1 when size more
\* bytes are there, 0 otherwise.
fread(keypair, pos, size) == IF pos + size <= keypair.size THEN 1 ELSE 0

\* Encryptor::Encryptor(keypair): the keys held, or the exception thrown.
Encryptor(keypair) ==
    IF ~keypair.file
    THEN [thrown |-> "none",
          tx_secretkey |-> crypto_box_seed_keypair(DEFAULT_ENCRYPTION_SEED).sk,
          rx_publickey |-> crypto_box_seed_keypair(DEFAULT_ENCRYPTION_SEED).pk]
    ELSE IF ~keypair.opens
    THEN [thrown |-> "open", tx_secretkey |-> 0, rx_publickey |-> 0]
    ELSE IF fread(keypair, 0, crypto_box_SECRETKEYBYTES) # 1
    THEN [thrown |-> "read", tx_secretkey |-> 0, rx_publickey |-> 0]
    ELSE IF fread(keypair, crypto_box_SECRETKEYBYTES, crypto_box_PUBLICKEYBYTES) # 1
    THEN [thrown |-> "read", tx_secretkey |-> keypair.sk, rx_publickey |-> 0]
    ELSE [thrown |-> "none", tx_secretkey |-> keypair.sk, rx_publickey |-> keypair.pk]

\* Decryptor::Decryptor(keypair): the keys held, or the exception thrown.
Decryptor(keypair) ==
    IF ~keypair.file
    THEN [thrown |-> "none",
          rx_secretkey |-> crypto_box_seed_keypair(DEFAULT_ENCRYPTION_SEED).sk,
          tx_publickey |-> crypto_box_seed_keypair(DEFAULT_ENCRYPTION_SEED).pk]
    ELSE IF ~keypair.opens
    THEN [thrown |-> "open", rx_secretkey |-> 0, tx_publickey |-> 0]
    ELSE IF fread(keypair, 0, crypto_box_SECRETKEYBYTES) # 1
    THEN [thrown |-> "read", rx_secretkey |-> 0, tx_publickey |-> 0]
    ELSE IF fread(keypair, crypto_box_SECRETKEYBYTES, crypto_box_PUBLICKEYBYTES) # 1
    THEN [thrown |-> "read", rx_secretkey |-> keypair.sk, tx_publickey |-> 0]
    ELSE [thrown |-> "none", rx_secretkey |-> keypair.sk, tx_publickey |-> keypair.pk]

\* Variant of the key generation that seals a new key into the announcement
\* and goes on sealing data under the key held before.
makeNewSessionKey_KeepKey(t, r) ==
    [t EXCEPT !.n_keys = @ + 1,
              !.sessionKeyPacket =
                  [session_key_nonce |-> r,
                   session_key_data |-> crypto_box_easy(r, r, t.rx_publickey,
                                                        t.tx_secretkey)]]

\* Encryptor::makeSessionKey as WBTransmitter calls it (makeNewSessionKey),
\* on an Encryptor holding the keys of t, randombytes_buf returning r: key
\* and box nonce are overwritten first, then the box is sealed; when
\* crypto_box_easy fails std::runtime_error is thrown and the sealed bytes
\* are those of the announcement before.
makeNewSessionKey(t, r) ==
    IF t.rx_publickey = LowOrderPoint
    THEN [t EXCEPT !.thrown = "seal",
                   !.session_key = r,
                   !.sessionKeyPacket.session_key_nonce = r]
    ELSE [t EXCEPT !.session_key = r,
                   !.n_keys = @ + 1,
                   !.sessionKeyPacket =
                       [session_key_nonce |-> r,
                        session_key_data |-> crypto_box_easy(r, r, t.rx_publickey,
                                                             t.tx_secretkey)]]

\* WBTransmitter::sendPacket: one packet handed to the radio.
sendPacket(t, pkt) ==
    [t EXCEPT !.out = Append(@, pkt),
              !.ieee80211_seq = NextSeq(@),
              !.nInjectedPackets = @ + 1]

\* WBTransmitter::sendSessionKey; cause: why the announcement is sent.
sendSessionKey(t, cause) ==
    [sendPacket(t, [kind |-> "key", cause |-> cause, key |-> t.session_key,
                    box |-> t.sessionKeyPacket, nonce |-> 0, at |-> t.now])
       EXCEPT !.nInjectedSessionKeypackets = @ + 1]

\* WBTransmitter::sendFecPrimaryOrSecondaryFragment.
sendFecPrimaryOrSecondaryFragment(t, nonce) ==
    sendPacket([t EXCEPT !.m_curr_seq_nr = @ + 1],
               [kind |-> "data", cause |-> "data", key |-> t.session_key,
                box |-> t.sessionKeyPacket, nonce |-> nonce, at |-> t.now])

\* The output callback invoked for each of the fragments, in order.
RECURSIVE sendFragments(_, _)
sendFragments(t, nonces) ==
    IF nonces = <<>> THEN t
    ELSE sendFragments(sendFecPrimaryOrSecondaryFragment(t, Head(nonces)), Tail(nonces))

\* n announcements, each followed by the sleep.
RECURSIVE RepeatSendSessionKey(_, _)
RepeatSendSessionKey(t, n) ==
    IF n = 0 THEN t
    ELSE RepeatSendSessionKey(
            [sendSessionKey(t, "startup") EXCEPT !.now = @ + STARTUP_ANNOUNCE_SLEEP], n - 1)

\* Variant of the startup burst that is one announcement short.
StartupAnnounce_Short(t) == RepeatSendSessionKey(t, STARTUP_ANNOUNCEMENTS - 1)

\* The startup burst of the constructor.
StartupAnnounce(t) == RepeatSendSessionKey(t, STARTUP_ANNOUNCEMENTS)

\* WBTransmitter::WBTransmitter: the Encryptor is constructed, the first
\* session key made, the startup burst sent and the announce timestamp set.
WBTransmitter ==
    /\ wbtx.stage = "new"
    /\ LET enc == Encryptor(wbtx.keypair)
           t0  == [stage |-> "running", keypair |-> wbtx.keypair,
                   IS_FEC_DISABLED |-> wbtx.IS_FEC_DISABLED, thrown |-> "none",
                   tx_secretkey |-> enc.tx_secretkey, rx_publickey |-> enc.rx_publickey,
                   session_key |-> ZeroKey, n_keys |-> 0,
                   sessionKeyPacket |-> [session_key_nonce |-> 0, session_key_data |-> 0],
                   now |-> 0, session_key_announce_ts |-> 0,
                   block_idx |-> 0, fragment_idx |-> 0, curr_nonce |-> 0,
                   out |-> <<>>, ieee80211_seq |-> 0, m_curr_seq_nr |-> 0,
                   nInputPackets |-> 0, count_bytes_data_provided |-> 0,
                   nInjectedPackets |-> 0, nInjectedSessionKeypackets |-> 0,
                   fed |-> [size |-> 0, accepted |-> FALSE], ticks |-> 0]
           t1  == makeNewSessionKey(t0, 1)
           t2  == StartupAnnounce(t1)
       IN  wbtx' = IF enc.thrown # "none"
                   THEN [stage |-> "failed", keypair |-> wbtx.keypair,
                         IS_FEC_DISABLED |-> wbtx.IS_FEC_DISABLED, thrown |-> enc.thrown]
                   ELSE IF t1.thrown # "none"
                   THEN [stage |-> "failed", keypair |-> wbtx.keypair,
                         IS_FEC_DISABLED |-> wbtx.IS_FEC_DISABLED, thrown |-> t1.thrown]
                   ELSE [t2 EXCEPT !.session_key_announce_ts =
                                       t2.now + SESSION_KEY_ANNOUNCE_DELTA]
    /\ UNCHANGED <<linkVars, aead, fec, rxstats, hostVars>>

\* A Decryptor is constructed from the keypair argument instead.
DecryptorConstructed ==
    /\ wbtx.stage = "new"
    /\ wbtx' = [stage |-> "decryptor", keypair |-> wbtx.keypair,
                IS_FEC_DISABLED |-> wbtx.IS_FEC_DISABLED,
                thrown |-> Decryptor(wbtx.keypair).thrown]
    /\ UNCHANGED <<linkVars, aead, fec, rxstats, hostVars>>

\* Variant of the size check that lets an empty packet through.
RejectsSize_NoZero(size) == size > MAX_PACKET_PAYLOAD_SIZE

\* feedPacket's check of the size.
RejectsSize(size) == size <= 0 \/ size > MAX_PACKET_PAYLOAD_SIZE

\* Variant of the announce condition that does not look at the timestamp.
AnnounceDue_Always(cur_ts, announce_ts) == TRUE

\* cur_ts >= session_key_announce_ts.
AnnounceDue(cur_ts, announce_ts) == cur_ts >= announce_ts

\* The number of values of the nonce handed to the output callback (a
\* uint64_t), scaled down: the packet counter of the bypass encoder is
\* computed modulo it.
NonceSpace == 8

\* The encoder's encodePacket: the nonces of the fragments it emits and its
\* state after.  Fixed k: the k + r fragments of the block when its last
\* primary is stored; FEC disabled: the packet itself.
encodePacket(t) ==
    IF t.IS_FEC_DISABLED
    THEN [nonces |-> <<t.curr_nonce>>,
          t |-> [t EXCEPT !.curr_nonce = (@ + 1) % NonceSpace]]
    ELSE IF t.fragment_idx = FEC_K - 1
    THEN [nonces |-> [i \in 1 .. FecN |-> FecNonce(t.block_idx, i - 1)],
          t |-> [t EXCEPT !.block_idx = @ + 1, !.fragment_idx = 0]]
    ELSE [nonces |-> <<>>,
          t |-> [t EXCEPT !.fragment_idx = @ + 1]]

\* The encoder's resetOnOverflow: true, and the block index back at 0, when
\* the nonce space is exhausted.
EncoderOverflow(t) == ~t.IS_FEC_DISABLED /\ t.block_idx >= MaxBlockIdx

\* Variant of the rekey on overflow that makes the key and does not send it.
RekeyOnOverflow_NoAnnounce(t) ==
    makeNewSessionKey([t EXCEPT !.block_idx = 0], t.n_keys + 1)

\* feedPacket on resetOnOverflow(): a new session key is made and announced.
RekeyOnOverflow(t) ==
    LET t1 == makeNewSessionKey([t EXCEPT !.block_idx = 0], t.n_keys + 1)
    IN  IF t1.thrown # "none" THEN [t1 EXCEPT !.stage = "terminated"]
        ELSE sendSessionKey(t1, "rekey")

\* WBTransmitter::feedPacket(buf, size).
feedPacket_Call(size) ==
    /\ wbtx.stage = "running"
    /\ LET t0  == [wbtx EXCEPT !.fed = [size |-> size, accepted |-> ~RejectsSize(size)]]
           t1  == [t0 EXCEPT !.count_bytes_data_provided = @ + size]
           t2  == IF AnnounceDue(t1.now, t1.session_key_announce_ts)
                  THEN [sendSessionKey(t1, "periodic")
                          EXCEPT !.session_key_announce_ts =
                                     t1.now + SESSION_KEY_ANNOUNCE_DELTA]
                  ELSE t1
           e   == encodePacket(t2)
           t3  == sendFragments(e.t, e.nonces)
           t4  == IF EncoderOverflow(t3) THEN RekeyOnOverflow(t3) ELSE t3
       IN  wbtx' = IF RejectsSize(size) THEN t0
                   ELSE IF t4.stage = "terminated" THEN t4
                   ELSE [t4 EXCEPT !.nInputPackets = @ + 1]
    /\ UNCHANGED <<linkVars, aead, fec, rxstats, hostVars>>

\* feedPacket in a run of at most MaxFeed accepted packets.
feedPacket(size) ==
    /\ wbtx.stage = "running"
    /\ wbtx.nInputPackets < MaxFeed
    /\ feedPacket_Call(size)

\* feedPacket in a run long enough for the packet counter to go through all
\* its values and start again.
MaxLifeFeed == NonceSpace + 2
feedPacket_Life(size) ==
    /\ wbtx.stage = "running"
    /\ wbtx.nInputPackets < MaxLifeFeed
    /\ feedPacket_Call(size)

\* Time passes while nothing is fed.
TickSteps == {SESSION_KEY_ANNOUNCE_DELTA - STARTUP_ANNOUNCE_SLEEP, SESSION_KEY_ANNOUNCE_DELTA}

Tick(d) ==
    /\ wbtx.stage = "running"
    /\ wbtx.ticks < MaxTicks
    /\ wbtx' = [wbtx EXCEPT !.now = @ + d, !.ticks = @ + 1]
    /\ UNCHANGED <<linkVars, aead, fec, rxstats, hostVars>>

\* The sizes offered to feedPacket.
FeedSizes == {0, 1, MAX_PACKET_PAYLOAD_SIZE, MAX_PACKET_PAYLOAD_SIZE + 1}

InitTx ==
    /\ LinkInit({0})
    /\ AeadIdle
    /\ FecIdle
    /\ StatsIdle /\ HostIdle
    /\ wbtx \in {[stage |-> "new", keypair |-> kp, IS_FEC_DISABLED |-> d, thrown |-> "none"] :
                    kp \in KeyPairs, d \in BOOLEAN}

NextTx ==
    \/ WBTransmitter
    \/ DecryptorConstructed
    \/ \E size \in FeedSizes : feedPacket(size)
    \/ \E d \in TickSteps : Tick(d)

SpecTx == InitTx /\ [][NextTx]_vars

\* The whole lifetime of a transmitter whose keyfile is good.
InitTxLife ==
    /\ LinkInit({0})
    /\ AeadIdle
    /\ FecIdle
    /\ StatsIdle /\ HostIdle
    /\ wbtx \in {[stage |-> "new", keypair |-> NoKeypair, IS_FEC_DISABLED |-> d,
                  thrown |-> "none"] : d \in BOOLEAN}

NextTxLife ==
    \/ WBTransmitter
    \/ \E size \in FeedSizes : feedPacket_Life(size)
    \/ \E d \in TickSteps : Tick(d)

SpecTxLife == InitTxLife /\ [][NextTxLife]_vars

(***************************************************************************)
(* The RX statistics (src/src/WBTxRx.h): m_rx_stats and one entry of       *)
(* m_rx_stats_per_card are plain int64_t members, written by the receive   *)
(* thread for every packet, copied out by get_rx_stats() and               *)
(* get_rx_stats_for_card() and zeroed by rx_reset_stats() on the caller's  *)
(* thread.  The class declares no lock for them, so the three threads      *)
(* interleave member by member.                                            *)
(***************************************************************************)
\* RxStats{} / RxStatsPerCard{}: the counters as constructed.
NoStats == [count_p_any |-> 0, count_p_valid |-> 0]

\* The members a getter copies, one load each.
StatsFields == {"count_p_any", "count_p_valid"}

\* What a getter has copied so far (nothing yet).
NoSnapshot == [read |-> {}, count_p_any |-> 0, count_p_valid |-> 0]

\* WBTxRx::WBTxRx: the counters of a unit that has started to receive.
StatsConstructed ==
    [stage |-> "run", m_rx_stats |-> NoStats, per_card |-> NoStats,
     rx_pc |-> "idle", rx_valid |-> FALSE,
     snap |-> NoSnapshot, returned |-> NoStats, observed |-> FALSE,
     was_reset |-> FALSE]

\* Receive thread, on_new_packet: every parsed packet is counted in
\* count_p_any of the unit and of the card before it is validated.
RxThreadCountAny(valid) ==
    /\ rxstats.stage = "run"
    /\ rxstats.rx_pc = "idle"
    /\ rxstats.m_rx_stats.count_p_any < MaxCount
    /\ rxstats.per_card.count_p_any < MaxCount
    /\ rxstats' = [rxstats EXCEPT
                     !.m_rx_stats.count_p_any = @ + 1,
                     !.per_card.count_p_any = @ + 1,
                     !.rx_pc = "counted",
                     !.rx_valid = valid]
    /\ UNCHANGED <<linkVars, aead, fec, wbtx, hostVars>>

\* Receive thread, on_new_packet: after validation a valid packet is counted
\* in count_p_valid of the unit and of the card.
RxThreadCountValid ==
    /\ rxstats.stage = "run"
    /\ rxstats.rx_pc = "counted"
    /\ rxstats' = [rxstats EXCEPT
                     !.m_rx_stats.count_p_valid = IF rxstats.rx_valid THEN @ + 1 ELSE @,
                     !.per_card.count_p_valid = IF rxstats.rx_valid THEN @ + 1 ELSE @,
                     !.rx_pc = "idle"]
    /\ UNCHANGED <<linkVars, aead, fec, wbtx, hostVars>>

\* rx_reset_stats(): the caller's thread assigns fresh structs.
rx_reset_stats ==
    /\ rxstats.stage = "run"
    /\ rxstats' = [rxstats EXCEPT
                     !.m_rx_stats = NoStats,
                     !.per_card = NoStats,
                     !.was_reset = TRUE]
    /\ UNCHANGED <<linkVars, aead, fec, wbtx, hostVars>>

\* A getter's copy with one more member loaded.
Snapshot(snap, field, value) ==
    [snap EXCEPT !.read = @ \cup {field}, ![field] = value]

\* get_rx_stats(): the getter's thread loads one more member of m_rx_stats;
\* the order of the loads is the compiler's choice.  With the last load the
\* copy is returned to the caller.
get_rx_stats(field) ==
    /\ rxstats.stage = "run"
    /\ field \notin rxstats.snap.read
    /\ LET snap == Snapshot(rxstats.snap, field, rxstats.m_rx_stats[field])
       IN  rxstats' =
             IF snap.read = StatsFields
             THEN [rxstats EXCEPT
                     !.snap = NoSnapshot,
                     !.returned = [count_p_any |-> snap.count_p_any,
                                   count_p_valid |-> snap.count_p_valid],
                     !.observed = TRUE]
             ELSE [rxstats EXCEPT !.snap = snap]
    /\ UNCHANGED <<linkVars, aead, fec, wbtx, hostVars>>

InitStats ==
    /\ LinkInit({0}) /\ AeadIdle /\ FecIdle /\ TxIdle
    /\ rxstats = StatsConstructed
    /\ HostIdle

NextStats ==
    \/ \E valid \in BOOLEAN : RxThreadCountAny(valid)
    \/ RxThreadCountValid
    \/ rx_reset_stats
    \/ \E field \in StatsFields : get_rx_stats(field)

SpecStats == InitStats /\ [][NextStats]_vars

(***************************************************************************)
(* GF(2^8) and the region operations                                       *)
(* (src/src/ExternalCSources/fec/libmoepgf/gf256_ssse3.h).  A region is a  *)
(* function from byte offsets to bytes; the memory that holds it reaches   *)
(* to the next multiple of 16 bytes.                                       *)
(***************************************************************************)
MOEPGF256_SIZE == 256
\* The polynomial of the field, x^8 + x^4 + x^3 + x^2 + 1 (0x11d).
MOEPGF256_POLYNOMIAL == 285
Bytes == 0 .. MOEPGF256_SIZE - 1

\* Bitwise AND of two naturals.
RECURSIVE BitAnd(_, _)
BitAnd(a, b) ==
    IF a = 0 \/ b = 0 THEN 0
    ELSE ((a % 2) * (b % 2)) + 2 * BitAnd(a \div 2, b \div 2)

\* a times x in the field: shift, and reduce by the polynomial.
GfTimesX(a) ==
    IF 2 * a >= MOEPGF256_SIZE THEN BitXor(2 * a, MOEPGF256_POLYNOMIAL) ELSE 2 * a

\* The product in GF(2^8) by its definition: the polynomial product reduced
\* by the polynomial of the field.
RECURSIVE GfProduct(_, _)
GfProduct(a, b) ==
    IF b = 0 THEN 0
    ELSE BitXor(IF b % 2 = 1 THEN a ELSE 0, GfProduct(GfTimesX(a), b \div 2))

\* The n-th power of the generator x.
RECURSIVE GfPower(_)
GfPower(n) ==
    IF n = 0 THEN 1
    ELSE IF n % 2 = 1 THEN GfTimesX(GfPower(n - 1))
    ELSE LET h == GfPower(n \div 2) IN GfProduct(h, h)

\* A table with its entries computed once: entry i is at index i + 1.
Table(f) == <<>> \o f

\* Exponential and logarithm tables (gf_exp[i + 1] = x^i, gf_log[a] for
\* a > 0), and the product and the inverse read off them.
gf_exp == Table([i \in 1 .. MOEPGF256_SIZE - 1 |-> GfPower(i - 1)])
gf_log == Table([a \in 1 .. MOEPGF256_SIZE - 1 |->
                    CHOOSE i \in 0 .. MOEPGF256_SIZE - 2 : gf_exp[i + 1] = a])

gf_mul(a, b) ==
    IF a = 0 \/ b = 0 THEN 0
    ELSE gf_exp[((gf_log[a] + gf_log[b]) % (MOEPGF256_SIZE - 1)) + 1]

gf_inv(a) == gf_exp[((MOEPGF256_SIZE - 1 - gf_log[a]) % (MOEPGF256_SIZE - 1)) + 1]

\* MOEPGF256_SHUFFLE_LOW_TABLE / MOEPGF256_SHUFFLE_HIGH_TABLE: for every
\* multiplier c (row c + 1) the products of the 16 low and of the 16 high
\* nibbles (nibble n at index n + 1).
tl == Table([c \in 1 .. MOEPGF256_SIZE |-> Table([n \in 1 .. 16 |-> gf_mul(c - 1, n - 1)])])
th == Table([c \in 1 .. MOEPGF256_SIZE |->
                Table([n \in 1 .. 16 |-> gf_mul(c - 1, 16 * (n - 1))])])

\* The byte lanes of an __m128i.
Lanes == 0 .. 15

mm_set1_epi8(b) == [i \in Lanes |-> b]
mm_and_si128(a, b) == [i \in Lanes |-> BitAnd(a[i], b[i])]
mm_xor_si128(a, b) == [i \in Lanes |-> BitXor(a[i], b[i])]

\* _mm_shuffle_epi8: lane i is zero when bit 7 of the index is set, else the
\* byte of a that the low four bits of the index select.
mm_shuffle_epi8(a, b) ==
    [i \in Lanes |-> IF b[i] >= 128 THEN 0 ELSE a[b[i] % 16]]

\* Variant of _mm_srli_epi64 that shifts nothing.
mm_srli_epi64_NoShift(a, imm8) == a

\* _mm_srli_epi64: the two 64-bit halves are shifted right by imm8 bits, so
\* a byte receives the low bits of the next higher byte of its half.
mm_srli_epi64(a, imm8) ==
    LET p == 2 ^ imm8
        q == 2 ^ (8 - imm8)
    IN  [i \in Lanes |->
            (a[i] \div p) + (IF i % 8 = 7 THEN 0 ELSE ((a[i + 1] % p) * q))]

\* _mm_loadu_si128 of a table row, _mm_load_si128 / _mm_store_si128 of 16
\* bytes of a region at offset off.
mm_loadu_si128(row) == [i \in Lanes |-> row[i + 1]]
mm_load_si128(region, off) == [i \in Lanes |-> region[off + i]]
mm_store_si128(region, off, v) ==
    [j \in DOMAIN region |-> IF j >= off /\ j < off + 16 THEN v[j - off] ELSE region[j]]

\* xorr_sse2(region1, region2, length): region1 ^= region2.
xorr_sse2(region1, region2, length) ==
    [j \in DOMAIN region1 |->
        IF j < length THEN BitXor(region1[j], region2[j]) ELSE region1[j]]

memset(region, value, length) ==
    [j \in DOMAIN region |-> IF j < length THEN value ELSE region[j]]

memcpy(dst, src, length) ==
    [j \in DOMAIN dst |-> IF j < length THEN src[j] ELSE dst[j]]

\* The product of the 16 bytes in2 with the multiplier whose tables are t1
\* and t2 (lines 41-46 and 73-78).
ShuffleProduct(t1, t2, in2) ==
    LET m1 == mm_set1_epi8(15)
        m2 == mm_set1_epi8(240)
        l  == mm_shuffle_epi8(t1, mm_and_si128(in2, m1))
        h  == mm_shuffle_epi8(t2, mm_srli_epi64(mm_and_si128(in2, m2), 4))
    IN  mm_xor_si128(h, l)

\* The loop of maddrc256_shuffle_ssse3 from offset off on.
RECURSIVE maddrc256_loop(_, _, _, _, _)
maddrc256_loop(region1, region2, constant, length, off) ==
    IF off >= length THEN region1
    ELSE LET t1  == mm_loadu_si128(tl[constant + 1])
             t2  == mm_loadu_si128(th[constant + 1])
             in2 == mm_load_si128(region2, off)
             in1 == mm_load_si128(region1, off)
             out == mm_xor_si128(ShuffleProduct(t1, t2, in2), in1)
         IN  maddrc256_loop(mm_store_si128(region1, off, out), region2, constant,
                            length, off + 16)

\* maddrc256_shuffle_ssse3: region1 after the call.
maddrc256_shuffle_ssse3(region1, region2, constant, length) ==
    IF constant = 0 THEN region1
    ELSE IF constant = 1 THEN xorr_sse2(region1, region2, length)
    ELSE maddrc256_loop(region1, region2, constant, length, 0)

\* The loop of mulrc256_shuffle_ssse3 from offset off on.
RECURSIVE mulrc256_loop(_, _, _, _)
mulrc256_loop(region, constant, length, off) ==
    IF off >= length THEN region
    ELSE LET t1  == mm_loadu_si128(tl[constant + 1])
             t2  == mm_loadu_si128(th[constant + 1])
             in  == mm_load_si128(region, off)
             out == ShuffleProduct(t1, t2, in)
         IN  mulrc256_loop(mm_store_si128(region, off, out), constant, length, off + 16)

\* mulrc256_shuffle_ssse3: the region after the call.
mulrc256_shuffle_ssse3(region, constant, length) ==
    IF constant = 0 THEN memset(region, 0, length)
    ELSE IF constant = 1 THEN region
    ELSE mulrc256_loop(region, constant, length, 0)

\* mulrc256_shuffle_sse3_x: region1 after the call.
mulrc256_shuffle_sse3_x(region1, region2, constant, length) ==
    mulrc256_shuffle_ssse3(memcpy(region1, region2, length), constant, length)

\* The lengths of the regions and the first bytes of their contents.
GfLengths == {0, 1, 16, 17, 32}
GfSeeds == {0, 160}

\* The memory of a region of this length: it reaches to a multiple of 16.
RegionOffsets(length) == 0 .. (16 * ((length + 15) \div 16)) - 1

\* Region contents that run through all byte values from a first byte on.
RegionFrom(seed, step, length) ==
    [j \in RegionOffsets(length) |-> (seed + step * j) % MOEPGF256_SIZE]

\* A call of maddrc256_shuffle_ssse3.
GfMultiplyAdd ==
    /\ gf.stage = "region"
    /\ gf.op = "none"
    /\ gf' = [gf EXCEPT !.op = "madd",
                        !.out = maddrc256_shuffle_ssse3(gf.region1, gf.region2,
                                                        gf.constant, gf.length)]
    /\ UNCHANGED gfOthers

\* A call of mulrc256_shuffle_sse3_x.
GfMultiply ==
    /\ gf.stage = "region"
    /\ gf.op = "none"
    /\ gf' = [gf EXCEPT !.op = "mul",
                        !.out = mulrc256_shuffle_sse3_x(gf.region1, gf.region2,
                                                        gf.constant, gf.length)]
    /\ UNCHANGED gfOthers

\* A call of mulrc256_shuffle_ssse3 on region2 itself.
GfMultiplyInPlace ==
    /\ gf.stage = "region"
    /\ gf.op = "none"
    /\ gf' = [gf EXCEPT !.op = "mul_in_place",
                        !.out = mulrc256_shuffle_ssse3(gf.region2, gf.constant, gf.length)]
    /\ UNCHANGED gfOthers

InitGf ==
    /\ LinkInit({0}) /\ AeadIdle /\ FecIdle /\ TxIdle /\ StatsIdle
    /\ GfOthersIdle
    /\ gf \in {[stage |-> "region", op |-> "none", constant |-> c, length |-> n,
                region1 |-> RegionFrom(255 - s, 7, n), region2 |-> RegionFrom(s, 1, n),
                out |-> <<>>] :
                  c \in Bytes, n \in GfLengths, s \in GfSeeds}

NextGf ==
    \/ GfMultiplyAdd
    \/ GfMultiply
    \/ GfMultiplyInPlace

SpecGf == InitGf /\ [][NextGf]_vars

(***************************************************************************)
(* The Reed-Solomon codec over GF(2^8): systematic, with a generator made  *)
(* from a Vandermonde matrix.  Fragment i of a block (i from 0) is entry   *)
(* i + 1 of a sequence; a shard is a sequence of bytes.                    *)
(***************************************************************************)
\* The largest number of primary and of secondary fragments of a block.
MaxK == 3
MaxR == 2
\* The limits of the codec.
MAX_TOTAL_FRAGMENTS == 255
MAX_PRIMARY_FRAGMENTS == 128

\* The shards the source fragments are drawn from (equal length).
RsShards == {<<0, 0>>, <<1, 255>>, <<142, 29>>}
ShardLen(shards) == Len(shards[1])

\* region_multiply_add on shards, scalar: dst ^= c * src.
gf256_madd(dst, src, c) ==
    Table([j \in 1 .. Len(dst) |-> BitXor(dst[j], gf_mul(c, src[j]))])

\* The point at which row i (from 0) of the Vandermonde matrix is evaluated:
\* 0 for the first row, then the powers of the generator, all different.
RsPoint(i) == IF i = 0 THEN 0 ELSE gf_exp[i]

RECURSIVE gf_pow(_, _)
gf_pow(a, e) == IF e = 0 THEN 1 ELSE gf_mul(a, gf_pow(a, e - 1))

\* The (n x k) Vandermonde matrix.
Vandermonde(n, k) ==
    Table([i \in 1 .. n |-> Table([j \in 1 .. k |-> gf_pow(RsPoint(i - 1), j - 1)])])

\* Sum of a[m] * b[m] over m in 1 .. n.
RECURSIVE GfDot(_, _, _)
GfDot(a, b, n) ==
    IF n = 0 THEN 0 ELSE BitXor(gf_mul(a[n], b[n]), GfDot(a, b, n - 1))

\* The product of an (n x k) and a (k x k) matrix.
MatMul(A, B, n, k) ==
    Table([i \in 1 .. n |->
              Table([j \in 1 .. k |-> GfDot(A[i], [m \in 1 .. k |-> B[m][j]], k)])])

IdentityMatrix(k) ==
    Table([i \in 1 .. k |-> Table([j \in 1 .. k |-> IF i = j THEN 1 ELSE 0])])

\* Gauss-Jordan elimination on [M | Inv] from column col on: the inverse of
\* the matrix the elimination started from, or <<>> when it is singular.
RECURSIVE GaussJordan(_, _, _, _)
GaussJordan(M, Inv, k, col) ==
    IF col > k THEN Inv
    ELSE LET rows == {r \in col .. k : M[r][col] # 0}
         IN  IF rows = {} THEN <<>>
             ELSE LET p == CHOOSE r \in rows : \A q \in rows : r <= q
                      swap(X) == Table([r \in 1 .. k |->
                                           IF r = col THEN X[p]
                                           ELSE IF r = p THEN X[col] ELSE X[r]])
                      M1 == swap(M)
                      I1 == swap(Inv)
                      c  == gf_inv(M1[col][col])
                      scale(row) == Table([j \in 1 .. k |-> gf_mul(c, row[j])])
                      elim(X, xrow) ==
                          Table([r \in 1 .. k |->
                                    IF r = col THEN xrow
                                    ELSE gf256_madd(X[r], xrow, M1[r][col])])
                  IN  GaussJordan(elim(M1, scale(M1[col])), elim(I1, scale(I1[col])),
                                  k, col + 1)

invert_mat(M, k) == GaussJordan(M, IdentityMatrix(k), k, 1)

\* The generator: the Vandermonde matrix times the inverse of its first k
\* rows, so that the first k rows are the identity.
RsGenerator(k, r) ==
    LET V == Vandermonde(k + r, k)
    IN  MatMul(V, invert_mat(SubSeq(V, 1, k), k), k + r, k)

\* Sum over i in 1 .. n of row[i] * shards[i], added to acc.
RECURSIVE RsCombine(_, _, _, _)
RsCombine(acc, row, shards, n) ==
    IF n = 0 THEN acc
    ELSE RsCombine(gf256_madd(acc, shards[n], row[n]), row, shards, n - 1)

ZeroShard(len) == Table([j \in 1 .. len |-> 0])

\* Variant of the parity computation that adds the source shards up.
RsParity_Xor(G, source, k, j) ==
    RsCombine(ZeroShard(ShardLen(source)), [i \in 1 .. k |-> 1], source, k)

\* Secondary fragment j (from 0): the sum of G[k + j, i] * source_i.
RsParity(G, source, k, j) ==
    RsCombine(ZeroShard(ShardLen(source)), G[k + j + 1], source, k)

\* fec_encode: the k primary fragments followed by the r secondary ones.
fec_encode(source, k, r) ==
    LET G == RsGenerator(k, r)
    IN  Table([i \in 1 .. k + r |->
                  IF i <= k THEN source[i] ELSE RsParity(G, source, k, i - k - 1)])

\* The elements of a set of numbers in increasing order.
RECURSIVE Sorted(_)
Sorted(S) ==
    IF S = {} THEN <<>>
    ELSE LET m == CHOOSE x \in S : \A y \in S : x <= y
         IN  <<m>> \o Sorted(S \ {m})

\* fec_decode from the fragments with the numbers in present (k of them):
\* the source shards, or <<>> when the sub-generator is singular.  When all
\* primaries are present they are the result.
fec_decode(fragments, present, k, r) ==
    IF 1 .. k \subseteq present
    THEN SubSeq(fragments, 1, k)
    ELSE LET idx == Sorted(present)
             G   == RsGenerator(k, r)
             inv == invert_mat(Table([m \in 1 .. k |-> G[idx[m]]]), k)
             rcv == Table([m \in 1 .. k |-> fragments[idx[m]]])
         IN  IF inv = <<>> THEN <<>>
             ELSE Table([i \in 1 .. k |->
                           RsCombine(ZeroShard(ShardLen(rcv)), inv[i], rcv, k)])

\* The block is encoded.
RsEncode ==
    /\ gf.stage = "rs"
    /\ gf.op = "none"
    /\ gf' = [gf EXCEPT !.op = "encoded", !.fragments = fec_encode(gf.source, gf.k, gf.r)]
    /\ UNCHANGED gfOthers

\* All fragments but k are lost on the way.
RsLose(present) ==
    /\ gf.stage = "rs"
    /\ gf.op = "encoded"
    /\ gf' = [gf EXCEPT !.op = "received", !.present = present]
    /\ UNCHANGED gfOthers

\* The block is decoded from the fragments that arrived.
RsDecode ==
    /\ gf.stage = "rs"
    /\ gf.op = "received"
    /\ gf' = [gf EXCEPT !.op = "decoded",
                        !.decoded = fec_decode(gf.fragments, gf.present, gf.k, gf.r)]
    /\ UNCHANGED gfOthers

InitRs ==
    /\ LinkInit({0}) /\ AeadIdle /\ FecIdle /\ TxIdle /\ StatsIdle
    /\ GfOthersIdle
    /\ \E k \in 1 .. MaxK, r \in 0 .. MaxR :
          \E src \in [1 .. k -> RsShards] :
             gf = [stage |-> "rs", op |-> "none", k |-> k, r |-> r, source |-> src,
                   fragments |-> <<>>, present |-> {}, decoded |-> <<>>]

NextRs ==
    \/ RsEncode
    \/ \E present \in SUBSET (1 .. gf.k + gf.r) :
          Cardinality(present) = gf.k /\ RsLose(present)
    \/ RsDecode

SpecRs == InitRs /\ [][NextRs]_vars

(***************************************************************************)
(* The size of an injected sized (src/src/WBTxRx.h, src/src/Encryption.hpp).*)
(***************************************************************************)
\* The largest sized the card is handed: radiotap header, 802.11 header and
\* 802.11 payload together.
PCAP_MAX_PACKET_SIZE == 1510
\* The bytes left for the 802.11 payload.
RAW_WIFI_FRAME_MAX_PAYLOAD_SIZE == 1473
\* The Poly1305 tag.
crypto_aead_chacha20poly1305_ABYTES == 16
\* sizeof(WBDataHeader): radio port, nonce and IEEE sequence number.
SIZEOF_WBDataHeader == 1 + 8 + 2
\* RadiotapHeader::SIZE_BYTES + IEEE80211_HEADER_SIZE_BYTES.
FramingBytes == PCAP_MAX_PACKET_SIZE - RAW_WIFI_FRAME_MAX_PAYLOAD_SIZE

\* ret.size() of Encryptor::makeEncryptedPacketIncludingHeader.
EncryptedPacketSize(payloadSize) ==
    SIZEOF_WBDataHeader + payloadSize + crypto_aead_chacha20poly1305_ABYTES

\* The payload lengths offered for injection.
FrameSizes == 0 .. MAX_PACKET_PAYLOAD_SIZE + 3

\* tx_inject_packet, the check of data_len.
FrameCheckSize ==
    /\ sized.stage = "offered"
    /\ sized' = [sized EXCEPT !.stage = IF sized.size > MAX_PACKET_PAYLOAD_SIZE
                                        THEN "rejected" ELSE "accepted"]
    /\ UNCHANGED sizedOthers

\* Header and AEAD envelope are serialised into the 802.11 payload.
FrameSeal ==
    /\ sized.stage = "accepted"
    /\ sized' = [sized EXCEPT !.stage = "sealed",
                              !.sealed = EncryptedPacketSize(sized.size)]
    /\ UNCHANGED sizedOthers

\* The payload is framed (radiotap header, 802.11 header) and handed to the card.
FrameInject ==
    /\ sized.stage = "sealed"
    /\ sized' = [sized EXCEPT !.stage = "injected",
                              !.total = FramingBytes + sized.sealed]
    /\ UNCHANGED sizedOthers

InitFrame ==
    /\ LinkInit({0}) /\ AeadIdle /\ FecIdle /\ TxIdle /\ StatsIdle
    /\ SizedOthersIdle
    /\ sized \in {[stage |-> "offered", size |-> n, encrypt |-> e, sealed |-> 0, total |-> 0] :
                    n \in FrameSizes, e \in BOOLEAN}

NextFrame ==
    \/ FrameCheckSize
    \/ FrameSeal
    \/ FrameInject

SpecFrame == InitFrame /\ [][NextFrame]_vars

(***************************************************************************)
(* The choice of the TX card (src/src/WBTxRx.h, m_curr_tx_card).           *)
(***************************************************************************)
\* Seconds of operation followed.
MaxSeconds == 3
\* The numbers of cards an engine is built with.
CardCounts == {1, 2, 3}
\* The average RSSI a card can show over one second, in dBm.
RssiLevels == {-70, -40, -38, -30}
\* The margin by which a card has to exceed the current one, in dB.
TX_CARD_SWITCH_MARGIN == 4
\* No packet was injected yet.
NoCard == -1

\* The largest of a non-empty set of integers.
MaxOf(S) == CHOOSE x \in S : \A y \in S : y <= x

\* The first card that shows the highest average RSSI.
HighestRssiCard(dbm) ==
    LET best == MaxOf({dbm[c] : c \in DOMAIN dbm})
    IN  CHOOSE c \in DOMAIN dbm : dbm[c] = best /\ \A d \in DOMAIN dbm : dbm[d] = best => c <= d

\* Variant of ExceedsByMargin without hysteresis.
ExceedsByMargin_None(candidate, current) == candidate > current

\* The candidate's RSSI exceeds the current card's by the margin.
ExceedsByMargin(candidate, current) == candidate - current >= TX_CARD_SWITCH_MARGIN

\* The card to inject on after one second with the averages dbm.
switch_tx_card_if_needed(auto, curr, dbm) ==
    IF ~auto THEN 0
    ELSE LET best == HighestRssiCard(dbm)
         IN  IF best # curr /\ ExceedsByMargin(dbm[best], dbm[curr]) THEN best ELSE curr

\* The RX thread's work once per second: the averages of the second that
\* elapsed are in, and the TX card is re-evaluated.
TxCardReevaluate(dbm) ==
    /\ txcard.stage = "run"
    /\ txcard.seconds < MaxSeconds
    /\ txcard' = [txcard EXCEPT
                    !.seconds = @ + 1,
                    !.prev_dbm = txcard.card_dbm,
                    !.card_dbm = dbm,
                    !.m_curr_tx_card =
                        switch_tx_card_if_needed(txcard.auto, txcard.m_curr_tx_card, dbm)]
    /\ UNCHANGED txcardOthers

\* The TX thread injects a packet on the current card.
TxCardInject ==
    /\ txcard.stage = "run"
    /\ txcard' = [txcard EXCEPT !.used = txcard.m_curr_tx_card]
    /\ UNCHANGED txcardOthers

InitTxCard ==
    /\ LinkInit({0}) /\ AeadIdle /\ FecIdle /\ TxIdle /\ StatsIdle
    /\ TxcardOthersIdle
    /\ txcard \in {[stage |-> "run", n_cards |-> n, auto |-> a, m_curr_tx_card |-> 0,
                    seconds |-> 0, card_dbm |-> <<>>, prev_dbm |-> <<>>, used |-> NoCard] :
                     n \in CardCounts, a \in BOOLEAN}

NextTxCard ==
    \/ \E dbm \in [0 .. txcard.n_cards - 1 -> RssiLevels] : TxCardReevaluate(dbm)
    \/ TxCardInject

SpecTxCard == InitTxCard /\ [][NextTxCard]_vars

(***************************************************************************)
(* Starting and stopping the receive thread (src/src/WBTxRx.h,             *)
(* start_receiving, stop_receiving, keep_receiving, m_receive_thread).     *)
(***************************************************************************)
\* Frames the cards hear in one run.
MaxArrive == 3
\* Fragments that complete a FEC block.
BlockFragments == 2
\* What a frame can be: a session-key frame or a data fragment.
FrameKinds == {"key", "data"}

\* Variant of Joined that does not wait for the thread.
Joined_NoWait(thread) == TRUE

\* std::thread::join returns: the thread has left its function, or none was
\* started.
Joined(thread) == thread \in {"none", "done"}

\* A frame arrives at a card and is buffered for poll.
RxFrameArrives(kind) ==
    /\ rxloop.stage = "run"
    /\ rxloop.arrived < MaxArrive
    /\ rxloop' = [rxloop EXCEPT !.arrived = @ + 1, !.queue = Append(@, kind)]
    /\ UNCHANGED rxloopOthers

\* start_receiving: the receive thread is created.
start_receiving ==
    /\ rxloop.stage = "run"
    /\ rxloop.thread = "none"
    /\ rxloop.stop = "none"
    /\ rxloop' = [rxloop EXCEPT !.thread = "loop"]
    /\ UNCHANGED rxloopOthers

\* loop_receive_packets, the test of keep_receiving.  keep_receiving is a
\* plain bool that stop_receiving writes from another thread: the value read
\* is the one written or the one before it (true).
RxLoopTest(seen) ==
    /\ rxloop.stage = "run"
    /\ rxloop.thread = "loop"
    /\ seen \in {rxloop.keep_receiving, TRUE}
    /\ rxloop' = [rxloop EXCEPT !.thread = IF seen THEN "poll" ELSE "done"]
    /\ UNCHANGED rxloopOthers

\* loop_receive_packets, poll and loop_iter: a buffered frame is dispatched
\* and its callbacks run on this thread; without a frame poll times out.  A
\* session-key frame invokes new_session; a data fragment is held by the FEC
\* decoder until its block is complete and the block is then delivered.
RxLoopPoll ==
    /\ rxloop.stage = "run"
    /\ rxloop.thread = "poll"
    /\ IF rxloop.queue = <<>>
       THEN rxloop' = [rxloop EXCEPT !.thread = "loop"]
       ELSE LET kind == Head(rxloop.queue)
                full == rxloop.fec_pending + 1 = BlockFragments
            IN  rxloop' = [rxloop EXCEPT
                    !.thread = "loop",
                    !.queue = Tail(@),
                    !.cb_session = IF kind = "key" THEN @ + 1 ELSE @,
                    !.fec_pending = IF kind = "data" THEN (IF full THEN 0 ELSE @ + 1) ELSE @,
                    !.cb_packet = IF kind = "data" /\ full THEN @ + BlockFragments ELSE @,
                    !.cb_after_stop = @ \/ (rxloop.stop = "returned"
                                            /\ (kind = "key" \/ full))]
    /\ UNCHANGED rxloopOthers

\* stop_receiving, first half: keep_receiving = false.
stop_receiving_Clear ==
    /\ rxloop.stage = "run"
    /\ rxloop.stop = "none"
    /\ rxloop' = [rxloop EXCEPT !.keep_receiving = FALSE, !.stop = "joining"]
    /\ UNCHANGED rxloopOthers

\* stop_receiving, second half: m_receive_thread->join() returns.
stop_receiving_Join ==
    /\ rxloop.stage = "run"
    /\ rxloop.stop = "joining"
    /\ Joined(rxloop.thread)
    /\ rxloop' = [rxloop EXCEPT !.stop = "returned"]
    /\ UNCHANGED rxloopOthers

\* The TX thread enters tx_inject_packet.
TxInjectBegin ==
    /\ rxloop.stage = "run"
    /\ rxloop.tx = "idle"
    /\ rxloop' = [rxloop EXCEPT !.tx = "injecting",
                                !.tx_during_stop = rxloop.stop = "joining"]
    /\ UNCHANGED rxloopOthers

\* The injection returns.
TxInjectEnd ==
    /\ rxloop.stage = "run"
    /\ rxloop.tx = "injecting"
    /\ rxloop' = [rxloop EXCEPT !.tx = "done"]
    /\ UNCHANGED rxloopOthers

InitRxLoop ==
    /\ LinkInit({0}) /\ AeadIdle /\ FecIdle /\ TxIdle /\ StatsIdle
    /\ RxloopOthersIdle
    /\ rxloop = [stage |-> "run", keep_receiving |-> TRUE, thread |-> "none",
                 stop |-> "none", arrived |-> 0, queue |-> <<>>, fec_pending |-> 0,
                 cb_packet |-> 0, cb_session |-> 0, cb_after_stop |-> FALSE,
                 tx |-> "idle", tx_during_stop |-> FALSE]

NextRxLoop ==
    \/ \E kind \in FrameKinds : RxFrameArrives(kind)
    \/ start_receiving
    \/ \E seen \in BOOLEAN : RxLoopTest(seen)
    \/ RxLoopPoll
    \/ stop_receiving_Clear
    \/ stop_receiving_Join
    \/ TxInjectBegin
    \/ TxInjectEnd

SpecRxLoop == InitRxLoop /\ [][NextRxLoop]_vars

\* The threads are scheduled: the receive thread runs its loop and reads the
\* value stop_receiving wrote after finitely many iterations, join returns
\* once the thread is done, and the injection call returns.
SpecRxLoopFair ==
    /\ SpecRxLoop
    /\ WF_vars(RxLoopPoll)
    /\ WF_vars(\E seen \in BOOLEAN : RxLoopTest(seen))
    /\ SF_vars(RxLoopTest(FALSE))
    /\ WF_vars(stop_receiving_Join)
    /\ WF_vars(TxInjectEnd)

(***************************************************************************)
(* Updating the radiotap header while packets are injected                 *)
(* (src/src/WBTransmitter.cpp, sendPacket and update_mcs_index).           *)
(***************************************************************************)
\* Updates of the radiotap header in one run.
MaxUpdates == 2
\* The MCS indices and channel widths a caller selects.
McsIndices == {1, 2}
ChannelWidths == {20, 40}
\* RadiotapHeader::UserSelectableParams a transmitter is constructed with.
DefaultRadiotapParams == [bandwidth |-> 20, mcs_index |-> 1]

\* RadiotapHeader{params}: the bytes of the header that depend on the
\* parameters.
RadiotapHeader(params) == <<params.bandwidth, params.mcs_index>>

\* Variant of TryLock in which the mutex excludes nobody.
TryLock_Always(holder) == TRUE

\* std::mutex::lock returns when no thread holds the mutex.
TryLock(holder) == holder = "none"

\* The headers an injection entered now may carry: the one in place, or the
\* one of an update that has been called and has not returned.
HeadersInForce ==
    {rtap.installed} \cup (IF rtap.upd = "idle" THEN {} ELSE {rtap.newRadioTapHeader})

\* sendPacket up to the lock: the IEEE header is written, the sequence
\* number advanced.
sendPacket_Enter ==
    /\ rtap.stage = "run"
    /\ rtap.tx = "idle"
    /\ rtap.nInjectedPackets < MaxInject
    /\ rtap' = [rtap EXCEPT !.tx = "enter",
                            !.ieee80211_seq = (@ + 16) % 65536,
                            !.allowed = HeadersInForce]
    /\ UNCHANGED rtapOthers

\* sendPacket: std::lock_guard guard(radiotapHeaderMutex).
sendPacket_Lock ==
    /\ rtap.stage = "run"
    /\ rtap.tx = "enter"
    /\ TryLock(rtap.radiotapHeaderMutex)
    /\ rtap' = [rtap EXCEPT !.tx = "inject", !.radiotapHeaderMutex = "tx", !.carried = <<>>]
    /\ UNCHANGED rtapOthers

\* injectPacket copies mRadiotapHeader into the packet, byte by byte.
sendPacket_CopyByte ==
    /\ rtap.stage = "run"
    /\ rtap.tx = "inject"
    /\ Len(rtap.carried) < Len(rtap.mRadiotapHeader)
    /\ rtap' = [rtap EXCEPT
                  !.carried = Append(@, rtap.mRadiotapHeader[Len(@) + 1]),
                  !.stolen = @ \/ rtap.radiotapHeaderMutex # "tx"]
    /\ UNCHANGED rtapOthers

\* injectPacket hands the packet to the card; sendPacket returns and the
\* guard releases the mutex.
sendPacket_Inject ==
    /\ rtap.stage = "run"
    /\ rtap.tx = "inject"
    /\ Len(rtap.carried) = Len(rtap.mRadiotapHeader)
    /\ rtap' = [rtap EXCEPT
                  !.tx = "idle",
                  !.nInjectedPackets = @ + 1,
                  !.injected = [header |-> rtap.carried, allowed |-> rtap.allowed],
                  !.stolen = @ \/ rtap.radiotapHeaderMutex # "tx",
                  !.radiotapHeaderMutex = IF @ = "tx" THEN "none" ELSE @]
    /\ UNCHANGED rtapOthers

\* An update up to the lock: the parameters are changed and the new header
\* is built in a local.
UpdateBuild(params) ==
    /\ rtap.stage = "run"
    /\ rtap.upd = "idle"
    /\ rtap.updates < MaxUpdates
    /\ rtap' = [rtap EXCEPT
                  !.upd = "built",
                  !.updates = @ + 1,
                  !.radioTapHeaderParams = params,
                  !.newRadioTapHeader = RadiotapHeader(params),
                  !.allowed = IF rtap.tx = "idle" THEN @ ELSE @ \cup {RadiotapHeader(params)}]
    /\ UNCHANGED rtapOthers

\* update_mcs_index(mcs_index), up to the lock.
update_mcs_index(mcs_index) ==
    UpdateBuild([rtap.radioTapHeaderParams EXCEPT !.mcs_index = mcs_index])

\* tx_threadsafe_update_radiotap_header(params), up to the lock.
tx_threadsafe_update_radiotap_header(params) ==
    UpdateBuild(params)

\* The update: std::lock_guard guard(radiotapHeaderMutex).
Update_Lock ==
    /\ rtap.stage = "run"
    /\ rtap.upd = "built"
    /\ TryLock(rtap.radiotapHeaderMutex)
    /\ rtap' = [rtap EXCEPT !.upd = "assign", !.radiotapHeaderMutex = "upd", !.copied = 0]
    /\ UNCHANGED rtapOthers

\* mRadiotapHeader = newRadioTapHeader, byte by byte.
Update_CopyByte ==
    /\ rtap.stage = "run"
    /\ rtap.upd = "assign"
    /\ rtap.copied < Len(rtap.newRadioTapHeader)
    /\ rtap' = [rtap EXCEPT
                  !.copied = @ + 1,
                  !.mRadiotapHeader[rtap.copied + 1] = rtap.newRadioTapHeader[rtap.copied + 1]]
    /\ UNCHANGED rtapOthers

\* The update returns and the guard releases the mutex.
Update_Return ==
    /\ rtap.stage = "run"
    /\ rtap.upd = "assign"
    /\ rtap.copied = Len(rtap.newRadioTapHeader)
    /\ rtap' = [rtap EXCEPT
                  !.upd = "idle",
                  !.installed = rtap.newRadioTapHeader,
                  !.radiotapHeaderMutex = IF @ = "upd" THEN "none" ELSE @]
    /\ UNCHANGED rtapOthers

InitRadiotap ==
    /\ LinkInit({0}) /\ AeadIdle /\ FecIdle /\ TxIdle /\ StatsIdle
    /\ RtapOthersIdle
    /\ rtap = [stage |-> "run",
               radioTapHeaderParams |-> DefaultRadiotapParams,
               mRadiotapHeader |-> RadiotapHeader(DefaultRadiotapParams),
               radiotapHeaderMutex |-> "none",
               ieee80211_seq |-> 0, nInjectedPackets |-> 0,
               tx |-> "idle", carried |-> <<>>, allowed |-> {},
               injected |-> [header |-> <<>>, allowed |-> {}], stolen |-> FALSE,
               upd |-> "idle", updates |-> 0, copied |-> 0,
               newRadioTapHeader |-> RadiotapHeader(DefaultRadiotapParams),
               installed |-> RadiotapHeader(DefaultRadiotapParams)]

NextRadiotap ==
    \/ sendPacket_Enter
    \/ sendPacket_Lock
    \/ sendPacket_CopyByte
    \/ sendPacket_Inject
    \/ \E mcs_index \in McsIndices : update_mcs_index(mcs_index)
    \/ \E bw \in ChannelWidths, mcs_index \in McsIndices :
          tx_threadsafe_update_radiotap_header([bandwidth |-> bw, mcs_index |-> mcs_index])
    \/ Update_Lock
    \/ Update_CopyByte
    \/ Update_Return

SpecRadiotap == InitRadiotap /\ [][NextRadiotap]_vars

(***************************************************************************)
(* The size of the FEC blocks of a transmitter (src/src/WBTransmitter.cpp, *)
(* constructor and feedPacket).                                            *)
(***************************************************************************)
\* The largest k of the variable mode.
MAX_N_P_FRAGMENTS_PER_BLOCK == MAX_PRIMARY_FRAGMENTS
\* options.fec_k, a variant: an int (index 0), or the video type whose
\* frames end the blocks (index 1: 264 for "h264", 265 for "h265").
FecKOptions ==
    {[index |-> 0, value |-> k] : k \in {0, 1, 8, MAX_PRIMARY_FRAGMENTS}}
        \cup {[index |-> 1, value |-> 264]}
\* options.fec_percentage.
FecPercentageOptions == {0, 20, 50, 99, 100}

\* The block-size field of the session-key packet is one byte wide.
Uint8(n) == n % 256

\* A block of k primaries is closed: r parities are computed, and the
\* fragments leave with the indices 0 .. k + r - 1.
CloseBlock(k, percentage) ==
    [k |-> k, r |-> calculateN(k, percentage) - k, n |-> calculateN(k, percentage)]

\* WBTransmitter::WBTransmitter, the choice of the encoder.
FecConstruct ==
    /\ fecblk.stage = "options"
    /\ LET variable == fecblk.fec_k.index = 1
           disabled == fecblk.fec_k.index = 0 /\ fecblk.fec_k.value = 0
           kMax == IF variable THEN MAX_N_P_FRAGMENTS_PER_BLOCK ELSE fecblk.fec_k.value
       IN  fecblk' = [fecblk EXCEPT
              !.stage = "run",
              !.IS_FEC_DISABLED = disabled,
              !.IS_FEC_VARIABLE = variable,
              !.kMax = IF disabled THEN 0 ELSE kMax,
              !.MAX_N_FRAGMENTS_PER_BLOCK =
                  IF disabled THEN 0 ELSE Uint8(calculateN(kMax, fecblk.fec_percentage))]
    /\ UNCHANGED fecblkOthers

\* WBTransmitter::feedPacket, the call of the encoder: the packet becomes the
\* next primary of the block; the block is closed when it has kMax primaries
\* or, in variable mode, when the packet ends a frame.
FecFeedPacket(endBlock) ==
    /\ fecblk.stage = "run"
    /\ IF fecblk.IS_FEC_DISABLED
       THEN fecblk' = [fecblk EXCEPT !.passed = TRUE]
       ELSE LET k == fecblk.primaries + 1
                close == k = fecblk.kMax \/ (fecblk.IS_FEC_VARIABLE /\ endBlock)
            IN  fecblk' = [fecblk EXCEPT
                   !.primaries = IF close THEN 0 ELSE k,
                   !.block = IF close THEN CloseBlock(k, fecblk.fec_percentage) ELSE @]
    /\ UNCHANGED fecblkOthers

InitFecBlocks ==
    /\ LinkInit({0}) /\ AeadIdle /\ FecIdle /\ TxIdle /\ StatsIdle
    /\ FecblkOthersIdle
    /\ fecblk \in {[stage |-> "options", fec_k |-> k, fec_percentage |-> p,
                    IS_FEC_DISABLED |-> FALSE, IS_FEC_VARIABLE |-> FALSE, kMax |-> 0,
                    MAX_N_FRAGMENTS_PER_BLOCK |-> 0, primaries |-> 0, passed |-> FALSE,
                    block |-> [k |-> 0, r |-> 0, n |-> 0]] :
                      k \in FecKOptions, p \in FecPercentageOptions}

NextFecBlocks ==
    \/ FecConstruct
    \/ \E endBlock \in BOOLEAN : FecFeedPacket(endBlock)

SpecFecBlocks == InitFecBlocks /\ [][NextFecBlocks]_vars

(***************************************************************************)
(* UDPMultiForwarder (src/src/HelperSources/SocketHelper.hpp).             *)
(***************************************************************************)
\* Calls made on the forwarder in one run, by all threads together.
MaxCalls == 4
\* The threads that call the forwarder.
UdpThreads == {"t1", "t2"}
\* The IP::Port tuples the callers name.
UdpTuples == {[client_addr |-> "127.0.0.1", client_udp_port |-> 5600],
              [client_addr |-> "127.0.0.1", client_udp_port |-> 5601]}
\* What erasing the end iterator of the list can do: the process is
\* aborted, or the list is left without its end.
EraseEndOutcomes == {"abort", "corrupt"}

\* The position of the first forwarder for the tuple, or Len + 1 for
\* udpForwarders.end() (std::find_if).
find_if(forwarders, tuple) ==
    IF \E i \in 1 .. Len(forwarders) : forwarders[i] = tuple
    THEN CHOOSE i \in 1 .. Len(forwarders) :
            forwarders[i] = tuple /\ \A j \in 1 .. i - 1 : forwarders[j] # tuple
    ELSE Len(forwarders) + 1

\* std::list::erase of the element at position i.
erase(forwarders, i) ==
    [j \in 1 .. Len(forwarders) - 1 |-> IF j < i THEN forwarders[j] ELSE forwarders[j + 1]]

\* Variant of AlreadyForwarding that finds nothing.
AlreadyForwarding_Never(forwarders, tuple) == FALSE

\* addForwarder, the loop over the list: a forwarder for the tuple exists.
AlreadyForwarding(forwarders, tuple) ==
    \E i \in 1 .. Len(forwarders) :
        /\ forwarders[i].client_addr = tuple.client_addr
        /\ forwarders[i].client_udp_port = tuple.client_udp_port

\* A thread that is not inside a call.
UdpThreadIdle == [pc |-> "idle", op |-> "none", tuple |-> CHOOSE t \in UdpTuples : TRUE,
                  packet |-> 0, cursor |-> 0]

\* The thread returns from its call; the lock_guard releases the mutex.
UdpReturn(t, forwarders, sent) ==
    udp' = [udp EXCEPT
              !.th[t] = UdpThreadIdle,
              !.udpForwarders = forwarders,
              !.udpForwardersLock = "none",
              !.sent = sent,
              !.last = [op |-> udp.th[t].op, tuple |-> udp.th[t].tuple,
                        packet |-> udp.th[t].packet,
                        before |-> udp.udpForwarders, after |-> forwarders]]

\* A thread calls addForwarder or removeForwarder for a tuple.
UdpCallTuple(t, op, tuple) ==
    /\ udp.stage = "run"
    /\ udp.th[t].pc = "idle"
    /\ udp.calls < MaxCalls
    /\ udp' = [udp EXCEPT !.calls = @ + 1,
                          !.th[t] = [UdpThreadIdle EXCEPT !.pc = "wait", !.op = op,
                                                          !.tuple = tuple]]
    /\ UNCHANGED udpOthers

\* A thread calls forwardPacketViaUDP with a packet of its own.
UdpCallForward(t) ==
    /\ udp.stage = "run"
    /\ udp.th[t].pc = "idle"
    /\ udp.calls < MaxCalls
    /\ udp' = [udp EXCEPT !.calls = @ + 1,
                          !.sent = Append(@, <<>>),
                          !.th[t] = [UdpThreadIdle EXCEPT !.pc = "wait", !.op = "forward",
                                                          !.packet = Len(udp.sent) + 1]]
    /\ UNCHANGED udpOthers

\* std::lock_guard guard(udpForwardersLock), in each of the three.
UdpLock(t) ==
    /\ udp.stage = "run"
    /\ udp.th[t].pc = "wait"
    /\ TryLock(udp.udpForwardersLock)
    /\ udp' = [udp EXCEPT !.udpForwardersLock = t, !.th[t].pc = "locked", !.th[t].cursor = 1]
    /\ UNCHANGED udpOthers

\* addForwarder under the lock.
addForwarder(t) ==
    /\ udp.stage = "run"
    /\ udp.th[t].pc = "locked"
    /\ udp.th[t].op = "add"
    /\ IF AlreadyForwarding(udp.udpForwarders, udp.th[t].tuple)
       THEN UdpReturn(t, udp.udpForwarders, udp.sent)
       ELSE UdpReturn(t, Append(udp.udpForwarders, udp.th[t].tuple), udp.sent)
    /\ UNCHANGED udpOthers

\* removeForwarder under the lock: the result of find_if is erased, also
\* when it is udpForwarders.end().
removeForwarder(t, outcome) ==
    /\ udp.stage = "run"
    /\ udp.th[t].pc = "locked"
    /\ udp.th[t].op = "remove"
    /\ LET pos == find_if(udp.udpForwarders, udp.th[t].tuple)
       IN  IF pos <= Len(udp.udpForwarders)
           THEN UdpReturn(t, erase(udp.udpForwarders, pos), udp.sent)
           ELSE udp' = [udp EXCEPT !.stage = "undefined", !.outcome = outcome,
                                   !.last = [op |-> "remove", tuple |-> udp.th[t].tuple,
                                             packet |-> 0,
                                             before |-> udp.udpForwarders,
                                             after |-> udp.udpForwarders]]
    /\ UNCHANGED udpOthers

\* forwardPacketViaUDP under the lock, one turn of the loop: the packet is
\* sent to the next forwarder; after the last one the call returns.
forwardPacketViaUDP(t) ==
    /\ udp.stage = "run"
    /\ udp.th[t].pc = "locked"
    /\ udp.th[t].op = "forward"
    /\ LET i == udp.th[t].cursor
           p == udp.th[t].packet
       IN  IF i <= Len(udp.udpForwarders)
           THEN udp' = [udp EXCEPT !.th[t].cursor = i + 1,
                                   !.sent[p] = Append(@, udp.udpForwarders[i])]
           ELSE UdpReturn(t, udp.udpForwarders, udp.sent)
    /\ UNCHANGED udpOthers

InitUdp ==
    /\ LinkInit({0}) /\ AeadIdle /\ FecIdle /\ TxIdle /\ StatsIdle
    /\ UdpOthersIdle
    /\ udp = [stage |-> "run", outcome |-> "none", udpForwarders |-> <<>>,
              udpForwardersLock |-> "none", calls |-> 0, sent |-> <<>>,
              th |-> [t \in UdpThreads |-> UdpThreadIdle],
              last |-> [op |-> "none", tuple |-> UdpThreadIdle.tuple, packet |-> 0,
                        before |-> <<>>, after |-> <<>>]]

NextUdp ==
    \/ \E t \in UdpThreads, op \in {"add", "remove"}, tuple \in UdpTuples :
          UdpCallTuple(t, op, tuple)
    \/ \E t \in UdpThreads : UdpCallForward(t)
    \/ \E t \in UdpThreads : UdpLock(t)
    \/ \E t \in UdpThreads : addForwarder(t)
    \/ \E t \in UdpThreads, outcome \in EraseEndOutcomes : removeForwarder(t, outcome)
    \/ \E t \in UdpThreads : forwardPacketViaUDP(t)

SpecUdp == InitUdp /\ [][NextUdp]_vars

(***************************************************************************)
(* UDPReceiver (src/src/HelperSources/SocketHelper.hpp).                   *)
(***************************************************************************)
\* The payload lengths of the datagrams sent to the receiver's port.
DatagramLengths == {0, 1, 1400}

\* A datagram reaches the socket and is queued for recv.
DatagramArrives(len) ==
    /\ udprx.stage = "run"
    /\ udprx.mSocket = "open"
    /\ udprx.arrived < MaxArrive
    /\ udprx' = [udprx EXCEPT !.arrived = @ + 1,
                              !.queue = Append(@, [id |-> udprx.arrived + 1, len |-> len])]
    /\ UNCHANGED udprxOthers

\* runInBackground: the thread that runs loopUntilError is created.
runInBackground ==
    /\ udprx.stage = "run"
    /\ udprx.receiverThread = "none"
    /\ udprx.stop = "none"
    /\ udprx' = [udprx EXCEPT !.receiverThread = "test"]
    /\ UNCHANGED udprxOthers

\* loopUntilError, while (receiving).  receiving is a plain bool that
\* stopLooping writes from another thread: the value read is the one written
\* or the one before it (true).
loopUntilError_Test(seen) ==
    /\ udprx.stage = "run"
    /\ udprx.receiverThread = "test"
    /\ seen \in {udprx.receiving, TRUE}
    /\ udprx' = [udprx EXCEPT !.receiverThread = IF seen THEN "recv" ELSE "done"]
    /\ UNCHANGED udprxOthers

\* loopUntilError, recv: the next datagram, or -1 once the socket has been
\* shut down and closed.
loopUntilError_Recv ==
    /\ udprx.stage = "run"
    /\ udprx.receiverThread = "recv"
    /\ IF udprx.mSocket = "closed"
       THEN udprx' = [udprx EXCEPT !.receiverThread = "got", !.message_length = -1]
       ELSE /\ udprx.queue # <<>>
            /\ udprx' = [udprx EXCEPT
                           !.receiverThread = "got",
                           !.queue = Tail(@),
                           !.message_length = Head(udprx.queue).len,
                           !.buff = Head(udprx.queue).id,
                           !.received = Append(@, Head(udprx.queue).id)]
    /\ UNCHANGED udprxOthers

\* loopUntilError, after recv: the callback for a positive length, the end
\* of the loop otherwise.
loopUntilError_Handle ==
    /\ udprx.stage = "run"
    /\ udprx.receiverThread = "got"
    /\ IF udprx.message_length > 0
       THEN udprx' = [udprx EXCEPT !.receiverThread = "test",
                                   !.mCb = Append(@, udprx.buff),
                                   !.cb_after_join = @ \/ udprx.stop = "joined"]
       ELSE udprx' = [udprx EXCEPT !.receiverThread = "test", !.receiving = FALSE]
    /\ UNCHANGED udprxOthers

\* stopLooping, called on its own or as the first statement of stopBackground.
stopLooping ==
    /\ udprx.stage = "run"
    /\ udprx.stop = "none"
    /\ udprx' = [udprx EXCEPT !.receiving = FALSE, !.mSocket = "closed", !.stop = "stopped"]
    /\ UNCHANGED udprxOthers

\* stopBackground after stopLooping: the thread is joined.
stopBackground_Join ==
    /\ udprx.stage = "run"
    /\ udprx.stop = "stopped"
    /\ Joined(udprx.receiverThread)
    /\ udprx' = [udprx EXCEPT !.stop = "joined"]
    /\ UNCHANGED udprxOthers

InitUdpRx ==
    /\ LinkInit({0}) /\ AeadIdle /\ FecIdle /\ TxIdle /\ StatsIdle
    /\ UdprxOthersIdle
    /\ udprx = [stage |-> "run", receiving |-> TRUE, mSocket |-> "open",
                receiverThread |-> "none", stop |-> "none", arrived |-> 0,
                queue |-> <<>>, message_length |-> 0, buff |-> 0, received |-> <<>>,
                mCb |-> <<>>, cb_after_join |-> FALSE]

NextUdpRx ==
    \/ \E len \in DatagramLengths : DatagramArrives(len)
    \/ runInBackground
    \/ \E seen \in BOOLEAN : loopUntilError_Test(seen)
    \/ loopUntilError_Recv
    \/ loopUntilError_Handle
    \/ stopLooping
    \/ stopBackground_Join

SpecUdpRx == InitUdpRx /\ [][NextUdpRx]_vars

(***************************************************************************)
(* The radio port of a frame, from injection to dispatch (src/src/WBTxRx.h,*)
(* RadioPort, radio_port_to_uint8_t, STREAM_INDEX_SESSION_KEY_PACKETS).    *)
(***************************************************************************)
\* The stream indices a caller may inject on.
STREAM_INDEX_MIN == 0
STREAM_INDEX_MAX == 127

\* The transmitter writes the radio port of the frame: of a data packet the
\* byte of its RadioPort, of a session-key packet the reserved value.
PortWrite ==
    /\ rport.stage = "offered"
    /\ rport' = [rport EXCEPT
                   !.stage = "sent",
                   !.radio_port =
                       IF rport.kind = "key" THEN STREAM_INDEX_SESSION_KEY_PACKETS
                       ELSE radio_port_to_uint8_t(rport.encrypted, rport.stream_index)]
    /\ UNCHANGED rportOthers

\* on_new_packet, the dispatch on the radio port of the frame received.
PortDispatch ==
    /\ rport.stage = "sent"
    /\ rport' = [rport EXCEPT
                   !.stage = "dispatched",
                   !.handler = IF IsSessionKeyPort(rport.radio_port)
                               THEN "session_key" ELSE "stream",
                   !.rx_encrypted = RadioPortEncrypted(rport.radio_port),
                   !.rx_stream_index = RadioPortMultiplexIndex(rport.radio_port)]
    /\ UNCHANGED rportOthers

InitPort ==
    /\ LinkInit({0}) /\ AeadIdle /\ FecIdle /\ TxIdle /\ StatsIdle
    /\ RportOthersIdle
    /\ rport \in {[stage |-> "offered", kind |-> k, encrypted |-> e, stream_index |-> s,
                   radio_port |-> 0, handler |-> "none", rx_encrypted |-> FALSE,
                   rx_stream_index |-> 0] :
                    k \in {"data"}, e \in BOOLEAN, s \in STREAM_INDEX_MIN .. STREAM_INDEX_MAX}
               \cup {[stage |-> "offered", kind |-> "key", encrypted |-> FALSE,
                      stream_index |-> 0, radio_port |-> 0, handler |-> "none",
                      rx_encrypted |-> FALSE, rx_stream_index |-> 0]}

NextPort ==
    \/ PortWrite
    \/ PortDispatch

SpecPort == InitPort /\ [][NextPort]_vars

(***************************************************************************)
(* A receiver that hears frames of another sender before the first         *)
(* announcement (src/src/Encryption.hpp, Decryptor).                       *)
(***************************************************************************)
\* The keys another sender may seal under: the all-zero key, and a key of
\* its own.
ForeignKeys == {ZeroKey, 4242}

\* A card hears a data frame that another sender sealed under a key of its
\* choice.
ForeignFrame(c, key, stream_index, encrypt) ==
    /\ Len(rx_queue[c]) < MaxQueue
    /\ rx_queue' = [rx_queue EXCEPT
                      ![c] = Enqueue(@, DataFrame(stream_index, Payload(stream_index),
                                                  encrypt, 0, 0, key))]
    /\ UNCHANGED <<txVars, rxVars, n_lost, offLink>>

InitFirstKey == LinkInit({0}) /\ AeadIdle /\ FecIdle /\ TxIdle /\ StatsIdle /\ HostIdle

NextFirstKey ==
    \/ \E due \in BOOLEAN : tx_inject_packet(0, Payload(0), TRUE, due)
    \/ rx_register_stream_handler(0)
    \/ \E c \in Cards : loop_iter(c)
    \/ \E c \in Cards, key \in ForeignKeys, e \in BOOLEAN :
          ForeignFrame(c, key, 0, e)

SpecFirstKey == InitFirstKey /\ [][NextFirstKey]_vars

(***************************************************************************)
(* Updates of the radiotap header from several threads                     *)
(* (src/src/WBTransmitter.cpp, update_mcs_index).                          *)
(***************************************************************************)
\* The threads that update the header.
Updaters == {1, 2}
\* No thread holds radiotapHeaderMutex.
NoHolder == 0

\* A thread calls update_mcs_index(mcs_index) and executes
\* _radioTapHeaderParams.mcs_index = mcs_index.
Upd_StoreMcsIndex(t, mcs_index) ==
    /\ rtupd.stage = "run"
    /\ rtupd.pc[t] = "idle"
    /\ rtupd.calls < MaxUpdates
    /\ rtupd' = [rtupd EXCEPT !.pc[t] = "stored",
                              !.calls = @ + 1,
                              !.radioTapHeaderParams.mcs_index = mcs_index]
    /\ UNCHANGED rtupdOthers

\* A thread calls tx_threadsafe_update_radiotap_header(params) and stores
\* the parameters.
Upd_StoreParams(t, params) ==
    /\ rtupd.stage = "run"
    /\ rtupd.pc[t] = "idle"
    /\ rtupd.calls < MaxUpdates
    /\ rtupd' = [rtupd EXCEPT !.pc[t] = "stored",
                              !.calls = @ + 1,
                              !.radioTapHeaderParams = params]
    /\ UNCHANGED rtupdOthers

\* auto newRadioTapHeader = RadiotapHeader{_radioTapHeaderParams}.
Upd_BuildHeader(t) ==
    /\ rtupd.stage = "run"
    /\ rtupd.pc[t] = "stored"
    /\ rtupd' = [rtupd EXCEPT !.pc[t] = "built",
                              !.newRadioTapHeader[t] =
                                  RadiotapHeader(rtupd.radioTapHeaderParams)]
    /\ UNCHANGED rtupdOthers

\* std::lock_guard guard(radiotapHeaderMutex).
Upd_LockGuard(t) ==
    /\ rtupd.stage = "run"
    /\ rtupd.pc[t] = "built"
    /\ rtupd.radiotapHeaderMutex = NoHolder
    /\ rtupd' = [rtupd EXCEPT !.pc[t] = "locked", !.radiotapHeaderMutex = t]
    /\ UNCHANGED rtupdOthers

\* mRadiotapHeader = newRadioTapHeader; the call returns and the guard
\* releases the mutex.
Upd_AssignAndReturn(t) ==
    /\ rtupd.stage = "run"
    /\ rtupd.pc[t] = "locked"
    /\ rtupd' = [rtupd EXCEPT !.pc[t] = "idle",
                              !.mRadiotapHeader = rtupd.newRadioTapHeader[t],
                              !.radiotapHeaderMutex = NoHolder,
                              !.returned = @ + 1]
    /\ UNCHANGED rtupdOthers

InitUpdaters ==
    /\ LinkInit({0}) /\ AeadIdle /\ FecIdle /\ TxIdle /\ StatsIdle
    /\ RtupdOthersIdle
    /\ rtupd = [stage |-> "run",
                radioTapHeaderParams |-> DefaultRadiotapParams,
                mRadiotapHeader |-> RadiotapHeader(DefaultRadiotapParams),
                radiotapHeaderMutex |-> NoHolder,
                pc |-> [t \in Updaters |-> "idle"],
                newRadioTapHeader |->
                    [t \in Updaters |-> RadiotapHeader(DefaultRadiotapParams)],
                calls |-> 0, returned |-> 0]

NextUpdaters ==
    \/ \E t \in Updaters, mcs_index \in McsIndices : Upd_StoreMcsIndex(t, mcs_index)
    \/ \E t \in Updaters, bw \in ChannelWidths, mcs_index \in McsIndices :
          Upd_StoreParams(t, [bandwidth |-> bw, mcs_index |-> mcs_index])
    \/ \E t \in Updaters : Upd_BuildHeader(t)
    \/ \E t \in Updaters : Upd_LockGuard(t)
    \/ \E t \in Updaters : Upd_AssignAndReturn(t)

SpecUpdaters == InitUpdaters /\ [][NextUpdaters]_vars

(***************************************************************************)
(* Properties of the session-key protocol.                                 *)
(***************************************************************************)
\* The frames the receive loop may be handed next from card c: the frame the
\* card heard, or that frame modified in one part.
Arrivals(c) ==
    IF rx_queue[c] = <<>> THEN {}
    ELSE {Head(rx_queue[c])} \cup Tampered(Head(rx_queue[c]))

\* The new_session callbacks of this step: handlers is the set of streams
\* whose callback has run once, no other callback has run.
SessionCallbacks(handlers) ==
    /\ last'.cb_session = handlers
    /\ \A s \in Streams :
          cb_session_count'[s] = cb_session_count[s] + (IF s \in handlers THEN 1 ELSE 0)

\* The receive loop pulled a frame from card c in this step and handled it as
\* the card heard it, or modified in transit (tampered).
Dispatched(c, tampered) ==
    /\ m_rx_stats'.count_p_any = m_rx_stats.count_p_any + 1
    /\ rx_queue[c] # <<>>
    /\ rx_queue'[c] = Tail(rx_queue[c])
    /\ last'.tampered = tampered

\* C1 (session idempotence): when the receive loop dispatches an announcement
\* that unseals to the session key the Decryptor already holds,
\* onNewPacketWfbKey returns false, the key is left as it is, no new session
\* is reported and no new_session callback runs, however often it is repeated.
C1_SessionIdempotence ==
    [][\A c \in Cards :
          (/\ loop_iter(c)
           /\ IsSessionKeyPort(Head(rx_queue[c]).hdr.port)
           /\ OpenSessionKey(Head(rx_queue[c]).body) = session_key)
          => /\ ~onNewPacketWfbKey(session_key, Head(rx_queue[c]).body).ret
             /\ session_key' = session_key
             /\ ~last'.reset
             /\ replaced' = replaced
             /\ SessionCallbacks({})]_vars

\* C1 witness: with a handler registered and a session installed, the same
\* announcement has been dispatched again (a second frame at least) and
\* caused no new session.
C1_Witness ==
    /\ last.kind = "key"
    /\ last.opened = session_key
    /\ ~last.reset
    /\ last.cb_session = {}
    /\ m_rx_handlers # {}
    /\ session_key # ZeroKey
    /\ m_rx_stats.count_p_any >= 2

\* C2 (new session iff the box opens and the key differs): for every frame
\* dispatched as a session-key frame, genuine or modified, a new session is
\* reported (every registered handler's new_session callback runs once, the
\* key is replaced by the unsealed one) exactly when crypto_box_open_easy
\* succeeds and the unsealed key differs from the key held; otherwise no
\* callback runs and the key is left as it is.
C2_NewSessionIffOpensAndDiffers ==
    [][\A c \in Cards : \A t \in BOOLEAN :
          (Dispatched(c, t) /\ last'.kind = "key")
          => LET opened == last'.opened
                 new == opened # NoKey /\ opened # session_key
             IN  /\ last'.reset <=> new
                 /\ SessionCallbacks(IF new THEN m_rx_handlers ELSE {})
                 /\ session_key' = IF new THEN opened ELSE session_key]_vars

\* C2 witness: with a session installed and a handler registered, an
\* announcement whose box does not open has been dispatched and ignored.
C2_Witness ==
    /\ last.kind = "key"
    /\ last.opened = NoKey
    /\ ~last.reset
    /\ m_rx_handlers # {}
    /\ session_key # ZeroKey

\* C3 (single reset per rekey), as the claim states it: the receiver's
\* new_session callback runs once per session key the transmitter has made,
\* whatever the number of cards and the order in which their buffers are
\* drained; so a stream never sees more callbacks than there were session keys.
C3_OneResetPerSessionKey ==
    \A s \in Streams : cb_session_count[s] <= n_sessions

\* C4 (no stale-key acceptance), as the claim states it: a data packet that is
\* accepted was not sealed under a key the Decryptor has already replaced.
C4_NoStaleKeyAcceptance ==
    (last.kind = "data" /\ last.data # NoData) => last.sealed.key \notin replaced

(***************************************************************************)
(* Properties of the AEAD envelope and of the data path.                   *)
(***************************************************************************)
\* C5 (AEAD round-trip): for every header H, payload P (the empty one
\* included) and session key K, decryptPacket(H, makeEncryptedPacketIncluding-
\* Header(H, P)) returns P when Encryptor and Decryptor hold the same K.
C5_AeadRoundTrip ==
    (aead.stage = "opened" /\ ~aead.tampered /\ aead.rx_key = aead.key)
    => aead.out = aead.P

\* C5 witness: a non-empty payload sealed under the largest nonce drawn has
\* been opened under the same key and came back.
C5_Witness ==
    /\ aead.stage = "opened"
    /\ ~aead.tampered
    /\ aead.rx_key = aead.key
    /\ aead.H.nonce = 255
    /\ aead.P = 2
    /\ aead.out = 2

\* One more frame was counted as received and not as valid.
CountedInvalid(before, after) ==
    /\ after.count_p_any = before.count_p_any + 1
    /\ after.count_p_valid = before.count_p_valid
    /\ after.count_p_any - after.count_p_valid
         = before.count_p_any - before.count_p_valid + 1

\* C6 (tamper rejection): when a data packet reaches the receive loop
\* differing in any part of header, ciphertext or tag from what the
\* transmitter sealed, decryptPacket fails, no data callback runs, the
\* session key is left as it is, and count_p_any - count_p_valid grows by one
\* (in the aggregate and in the card's counters).
C6_TamperRejection ==
    [][\A c \in Cards :
          (Dispatched(c, TRUE) /\ ~IsSessionKeyPort(Head(rx_queue[c]).hdr.port))
          => /\ \A g \in Tampered(Head(rx_queue[c])) :
                   decryptPacket(session_key, g.hdr, g.body) = NoData
             /\ last'.data = NoData
             /\ last'.cb_packet = {}
             /\ session_key' = session_key
             /\ CountedInvalid(m_rx_stats, m_rx_stats')
             /\ CountedInvalid(m_rx_stats_per_card[c], m_rx_stats_per_card'[c])]_vars

\* C6 witness: an encrypted packet sealed under the key the Decryptor holds,
\* for a stream with a registered handler, arrived modified and was rejected.
C6_Witness ==
    /\ last.kind = "data"
    /\ last.tampered
    /\ last.sealed.key = session_key
    /\ RadioPortEncrypted(last.sealed.port)
    /\ RadioPortMultiplexIndex(last.sealed.port) \in m_rx_handlers
    /\ last.data = NoData
    /\ last.cb_packet = {}
    /\ m_rx_stats.count_p_any - m_rx_stats.count_p_valid >= 1

\* C7 (per-packet encryption): tx_inject_packet with encrypt=false puts the
\* payload on the wire unmodified, with encrypt=true enciphered; in both cases
\* the tag over header and payload follows and the header's encrypted bit
\* says which.  The receiver checks the tag in both cases: an unencrypted
\* packet sealed under the key held is accepted with its payload, and a
\* modified one is rejected.
C7_PerPacketEncryption ==
    [][/\ \A s \in Streams, e \in BOOLEAN, due \in BOOLEAN : \A d \in {Payload(s)} :
            (n_injected' = n_injected + 1 /\ tx_inject_packet(s, d, e, due)) =>
              \A c \in Cards :
                 LET i == Len(rx_queue[c]) + (IF due THEN 2 ELSE 1)
                 IN  i <= Len(rx_queue'[c]) =>
                       LET f == rx_queue'[c][i]
                       IN  /\ RadioPortEncrypted(f.hdr.port) = e
                           /\ RadioPortMultiplexIndex(f.hdr.port) = s
                           /\ f.body.ct = IF e THEN ChaCha20(tx_session_key, m_nonce, d)
                                                ELSE Cleartext(d)
                           /\ f.body.tag = Poly1305(tx_session_key, m_nonce, f.hdr, f.body.ct)
       /\ \A c \in Cards :
            \A t \in BOOLEAN :
               (/\ Dispatched(c, t)
                /\ IsDataBody(Head(rx_queue[c]).body)
                /\ ~RadioPortEncrypted(Head(rx_queue[c]).hdr.port))
               => LET f == Head(rx_queue[c])
                  IN  IF t
                      THEN last'.data = NoData /\ last'.cb_packet = {}
                      ELSE IF f.body.tag.k = session_key
                           THEN last'.data = f.body.ct.m /\ last'.data # NoData
                           ELSE last'.data = NoData]_vars

\* C7 witness: an unencrypted packet has been accepted and handed to its
\* stream's handler.
C7_Witness ==
    /\ last.kind = "data"
    /\ ~last.tampered
    /\ ~RadioPortEncrypted(last.sealed.port)
    /\ last.data = last.sealed.data
    /\ last.data # NoData
    /\ last.cb_packet = {RadioPortMultiplexIndex(last.sealed.port)}

FedSeq(n) == [i \in 1 .. n |-> i]

\* The payloads of the blocks the encoder has closed.
ClosedPayloads == FEC_K * (fec.fed \div FEC_K)

\* Every emitted fragment has arrived or is lost, or its block has its k.
Quiescent ==
    \A f \in Emitted(fec.fed) :
       \/ f.nonce \in fec.got \cup fec.lost
       \/ HasK(NonceBlockIdx(f.nonce))

\* No block has lost more than r of its k + r fragments.
LossWithinR ==
    \A b \in FecBlocks :
       Cardinality({n \in fec.lost : NonceBlockIdx(n) = b}) <= FecN - FEC_K

\* A block timeout has expired.
Expired == \E e \in fec.dec.evicted : e.cause = "timeout"

RECURSIVE DuePrimaries(_, _, _)
DuePrimaries(pool, b, i) ==
    IF i >= FEC_K THEN <<>>
    ELSE (IF Cardinality({f \in pool : NonceBlockIdx(f.nonce) = b}) >= FEC_K
             \/ \E f \in pool : f.nonce = FecNonce(b, i)
          THEN <<FedPayload(b, i)>> ELSE <<>>)
         \o DuePrimaries(pool, b, i + 1)

\* What the application is due when the blocks from .. to - 1 are finished.
RECURSIVE DueDelivery(_, _, _)
DueDelivery(pool, from, to) ==
    IF from >= to THEN <<>>
    ELSE DuePrimaries(pool, from, 0) \o DueDelivery(pool, from + 1, to)

\* C9 (forward progress under loss): the decoder does not stall.  A block is
\* declared lost once the block FORWARD_HORIZON ahead has finished (no
\* complete block waits that far ahead of the head of the queue), once the
\* ring of RING_SIZE active blocks is exceeded, and when the block timeout
\* expires; whenever blocks are finished, the application receives, block
\* after block, the primaries that arrived, in index order, missing ones
\* skipped; and every block that completes is eventually delivered (the
\* decoder holds a complete block until it delivers it, so: whenever a
\* complete block waits, eventually none does).
C9_ForwardProgress ==
    /\ [](/\ \A b \in FecBlocks :
               Complete(fec.dec, b) => b < fec.dec.next + FORWARD_HORIZON
          /\ Cardinality(ActiveBlocks(fec.dec)) <= RING_SIZE)
    /\ [][/\ \A f \in Air :
               FecReceive(f)
               => fec'.dec.delivered
                    = fec.dec.delivered
                      \o DueDelivery(fec.dec.frags \cup {f}, fec.dec.next, fec'.dec.next)
          /\ FecTimeout
               => /\ fec'.dec.next > OldestActive(fec.dec)
                  /\ fec'.dec.delivered
                       = fec.dec.delivered
                         \o DueDelivery(fec.dec.frags, fec.dec.next, fec'.dec.next)]_vars
    /\ (\E b \in FecBlocks : Complete(fec.dec, b))
          ~> (\A b \in FecBlocks : ~Complete(fec.dec, b))

\* C9 witness: block 0 lost more than r fragments and was declared lost when
\* block 2 finished; its one primary that arrived was delivered, and the
\* later blocks after it, in order.
C9_Witness ==
    /\ fec.stage = "run"
    /\ [block |-> 0, cause |-> "horizon"] \in fec.dec.evicted
    /\ Cardinality({n \in fec.lost : NonceBlockIdx(n) = 0}) > FecN - FEC_K
    /\ fec.dec.delivered = <<2, 3, 4, 5, 6>>

(***************************************************************************)
(* Properties of the transmitter.                                          *)
(***************************************************************************)
\* The packets in wbtx.out at the positions idx.
TxKeyPackets == {i \in DOMAIN wbtx.out : wbtx.out[i].kind = "key"}
TxDataPackets == {i \in DOMAIN wbtx.out : wbtx.out[i].kind = "data"}
TxPeriodic == {i \in TxKeyPackets : wbtx.out[i].cause = "periodic"}

\* The transmitter has been constructed.
TxConstructed == wbtx.stage \in {"running", "terminated"}

TxSent == SubSeq(wbtx'.out, Len(wbtx.out) + 1, Len(wbtx'.out))

\* C12 (periodic announcements only while data is fed): a periodic
\* announcement goes out only in a step that is a call of feedPacket with an
\* accepted packet, made at or after the announce timestamp, which is then
\* now + interval; a step that feeds nothing (time passing, a rejected packet)
\* sends nothing; and two periodic announcements, or the startup burst and a
\* periodic announcement, are at least one interval apart.
C12_PeriodicAnnouncements ==
    /\ [](TxConstructed =>
            /\ \A i, j \in TxPeriodic :
                  i < j => wbtx.out[j].at >= wbtx.out[i].at + SESSION_KEY_ANNOUNCE_DELTA
            /\ \A i \in TxPeriodic : \A j \in TxKeyPackets :
                  wbtx.out[j].cause = "startup"
                  => wbtx.out[i].at >= wbtx.out[j].at + SESSION_KEY_ANNOUNCE_DELTA)
    /\ [][(wbtx.stage = "running" /\ wbtx'.stage = "running") =>
            /\ (\E i \in DOMAIN TxSent : TxSent[i].cause = "periodic")
               => /\ wbtx'.fed.accepted
                  /\ wbtx'.nInputPackets = wbtx.nInputPackets + 1
                  /\ wbtx.now >= wbtx.session_key_announce_ts
                  /\ wbtx'.session_key_announce_ts = wbtx.now + SESSION_KEY_ANNOUNCE_DELTA
                  /\ TxSent[1].cause = "periodic"
                  /\ \A i \in DOMAIN TxSent : TxSent[i].cause = "periodic" => i = 1
            /\ wbtx'.nInputPackets = wbtx.nInputPackets
               => /\ wbtx'.out = wbtx.out
                  /\ wbtx'.session_key_announce_ts = wbtx.session_key_announce_ts]_vars

\* C12 witness: two periodic announcements went out.
C12_Witness ==
    /\ wbtx.stage = "running"
    /\ Cardinality(TxPeriodic) >= 2

\* C13 (startup burst): once constructed, the first packets handed to the
\* radio are exactly STARTUP_ANNOUNCEMENTS (5) announcements of the session
\* key made in the constructor, every data packet comes after them, and the
\* constructor leaves the announce timestamp one interval after the end of
\* the burst (the last sleep included).
C13_StartupBurst ==
    /\ [](TxConstructed =>
            /\ Len(wbtx.out) >= STARTUP_ANNOUNCEMENTS
            /\ \A i \in 1 .. STARTUP_ANNOUNCEMENTS :
                  /\ wbtx.out[i].kind = "key"
                  /\ wbtx.out[i].cause = "startup"
                  /\ wbtx.out[i].key # ZeroKey
                  /\ wbtx.out[i].key = wbtx.out[1].key
                  /\ crypto_box_open_easy(wbtx.out[i].box.session_key_data,
                                          wbtx.out[i].box.session_key_nonce,
                                          wbtx.rx_publickey, wbtx.tx_secretkey)
                       = wbtx.out[i].key
            /\ \A i \in DOMAIN wbtx.out :
                  i > STARTUP_ANNOUNCEMENTS => wbtx.out[i].cause # "startup")
    /\ [][(wbtx.stage = "new" /\ wbtx'.stage = "running") =>
            /\ Len(wbtx'.out) = STARTUP_ANNOUNCEMENTS
            /\ wbtx'.session_key_announce_ts =
                 wbtx'.out[STARTUP_ANNOUNCEMENTS].at + STARTUP_ANNOUNCE_SLEEP
                   + SESSION_KEY_ANNOUNCE_DELTA
            /\ wbtx'.session_key_announce_ts = wbtx'.now + SESSION_KEY_ANNOUNCE_DELTA]_vars

\* C13 witness: a transmitter constructed from a keyfile has sent data.
C13_Witness ==
    /\ wbtx.stage = "running"
    /\ wbtx.keypair.file
    /\ TxDataPackets # {}

\* C14 (rekey on nonce overflow): when the encoder reports the overflow after
\* a fed packet (the block that closes is the last of the nonce space), the
\* same call of feedPacket makes a session key never used before, seals the
\* announcement from it and hands that announcement to the radio last; and
\* every data packet is preceded by an announcement of the key it is sealed
\* under, so no data packet goes out between the rekey and its announcement.
C14_RekeyOnOverflow ==
    /\ [][(/\ wbtx.stage = "running"
           /\ wbtx'.stage = "running"
           /\ wbtx'.nInputPackets = wbtx.nInputPackets + 1
           /\ ~wbtx.IS_FEC_DISABLED
           /\ wbtx.fragment_idx = FEC_K - 1
           /\ wbtx.block_idx + 1 >= MaxBlockIdx)
          => LET ann == wbtx'.out[Len(wbtx'.out)]
             IN  /\ Len(wbtx'.out) > Len(wbtx.out)
                 /\ ann.kind = "key"
                 /\ ann.cause = "rekey"
                 /\ ann.key = wbtx'.session_key
                 /\ ann.box = wbtx'.sessionKeyPacket
                 /\ crypto_box_open_easy(ann.box.session_key_data,
                                         ann.box.session_key_nonce,
                                         wbtx.rx_publickey, wbtx.tx_secretkey)
                      = wbtx'.session_key
                 /\ \A i \in DOMAIN wbtx.out : wbtx.out[i].key # wbtx'.session_key
                 /\ \A i \in DOMAIN TxSent :
                       TxSent[i].kind = "data" => TxSent[i].key = wbtx.session_key]_vars
    /\ [](TxConstructed =>
            \A i \in TxDataPackets :
               \E j \in TxKeyPackets : j < i /\ wbtx.out[j].key = wbtx.out[i].key)

\* C14 witness: after a rekey announcement data went out under the new key.
C14_Witness ==
    /\ wbtx.stage = "running"
    /\ \E j \in TxKeyPackets : \E i \in TxDataPackets :
          /\ wbtx.out[j].cause = "rekey"
          /\ j < i
          /\ wbtx.out[i].key = wbtx.out[j].key

\* C15 (rejected size): feedPacket with size 0 or a size above the maximum
\* has no effect: nothing is handed to the radio, and encoder state, nonce,
\* announce timestamp and all counters are as before (of the model's state
\* only the record of the last call changes).
C15_RejectedSizeNoEffect ==
    [][\A size \in FeedSizes :
          ((size = 0 \/ size > MAX_PACKET_PAYLOAD_SIZE) /\ feedPacket(size))
          => wbtx' = [wbtx EXCEPT !.fed = [size |-> size, accepted |-> FALSE]]]_vars

\* C15 witness: after packets were accepted, one of 1458 bytes was offered
\* when an announcement was due, and was rejected.
C15_Witness ==
    /\ wbtx.stage = "running"
    /\ wbtx.nInputPackets >= 1
    /\ wbtx.fed = [size |-> MAX_PACKET_PAYLOAD_SIZE + 1, accepted |-> FALSE]
    /\ wbtx.now >= wbtx.session_key_announce_ts

\* C18 (seal and open failures are never fatal), as the claim states it for
\* the transmitter: no failure of crypto_box_easy ends the constructor or
\* feedPacket with an exception.
C18_SealFailureNotFatal ==
    wbtx.stage # "idle" => wbtx.thrown # "seal"

\* C19 (keyfile loading), as the claim states it: an Encryptor or Decryptor
\* is constructed from a keyfile only if the file holds exactly the secret
\* key followed by the public key.
C19_KeyfileSizeChecked ==
    (wbtx.stage \in {"running", "decryptor"} /\ wbtx.thrown = "none" /\ wbtx.keypair.file)
    => wbtx.keypair.size = crypto_box_SECRETKEYBYTES + crypto_box_PUBLICKEYBYTES

(***************************************************************************)
(* Properties of the RX statistics.                                        *)
(***************************************************************************)
\* C16: pollution accounting: count_p_any >= count_p_valid in every state,
\* for the counters of the unit and of the card, and in every copy a getter
\* returns, while the receive thread counts and after rx_reset_stats().
C16_PollutionAccounting ==
    rxstats.stage = "run" =>
        /\ rxstats.m_rx_stats.count_p_any >= rxstats.m_rx_stats.count_p_valid
        /\ rxstats.per_card.count_p_any >= rxstats.per_card.count_p_valid
        /\ rxstats.observed =>
              rxstats.returned.count_p_any >= rxstats.returned.count_p_valid

(***************************************************************************)
(* Properties of an engine pair.                                           *)
(***************************************************************************)
\* C17: a frame whose direction bit equals the receiver's own role is
\* discarded: dispatching it invokes no stream callback (data or new
\* session), does not reach the session-key handler and leaves the key and
\* the count of valid packets as they are.
C17_DirectionFilter ==
    [][\A c \in Cards :
          (Dispatched(c, FALSE) /\ Head(rx_queue[c]).dir = RxRole) =>
              /\ last'.cb_packet = {}
              /\ last'.cb_session = {}
              /\ last'.data = NoData
              /\ last'.opened = NoKey
              /\ ~last'.reset
              /\ session_key' = session_key
              /\ replaced' = replaced
              /\ cb_session_count' = cb_session_count
              /\ m_rx_stats'.count_p_valid = m_rx_stats.count_p_valid]_vars

\* An announcement of the unit's own transmitter was handed back and
\* discarded while a session of the peer was installed and stream 7 had a
\* handler.
C17_Witness ==
    /\ last.kind = "discarded"
    /\ last.sealed = NoSeal
    /\ session_key \notin {ZeroKey, OwnEncryptor.session_key}
    /\ LOOPBACK_STREAM \in m_rx_handlers

\* C20: with default keys on both sides every announcement of the peer's
\* Encryptor is opened by the Decryptor, which then holds the announced
\* key; and a packet injected on stream 7 with encrypt=true under the key
\* the Decryptor holds is handed to the stream-7 callback, and to no other,
\* with the bytes that were injected.
C20_DefaultKeyLoopback ==
    [][\A c \in Cards :
          (Dispatched(c, FALSE) /\ Head(rx_queue[c]).dir = TxRole) =>
              LET f == Head(rx_queue[c])
              IN  IF IsSessionKeyPort(f.hdr.port)
                  THEN /\ last'.opened = f.body.session_key_data.m
                       /\ last'.opened # NoKey
                       /\ session_key' = last'.opened
                  ELSE (f.body.tag.k = session_key /\ LOOPBACK_STREAM \in m_rx_handlers) =>
                          /\ f.hdr.port = radio_port_to_uint8_t(TRUE, LOOPBACK_STREAM)
                          /\ f.body.ct.m \in LoopbackPayloads
                          /\ last'.data = f.body.ct.m
                          /\ last'.cb_packet = {LOOPBACK_STREAM}]_vars

\* A packet injected on stream 7 was delivered to the stream-7 callback
\* under a session installed from an announcement.
C20_Witness ==
    /\ last.kind = "data"
    /\ last.cb_packet = {LOOPBACK_STREAM}
    /\ last.data \in LoopbackPayloads
    /\ last.sealed.port = radio_port_to_uint8_t(TRUE, LOOPBACK_STREAM)
    /\ session_key = last.sealed.key
    /\ session_key # ZeroKey

(***************************************************************************)
(* Properties of GF(2^8) and of the Reed-Solomon codec.                    *)
(***************************************************************************)
\* The scalar definitions of the region operations, for the byte at offset j.
region_multiply_add(dst, src, c, j) == BitXor(dst[j], GfProduct(c, src[j]))
region_multiply(src, c, j) == GfProduct(c, src[j])

\* C22: for the multiplier of the call and every byte x the split-nibble
\* lookup tl[c][x & 0x0f] XOR th[c][x >> 4] is the product c*x in GF(2^8)
\* under 0x11d; and for every i < len maddrc256_shuffle_ssse3 leaves
\* dst[i] = dst_old[i] XOR c*src[i], mulrc256_shuffle_sse3_x leaves
\* dst[i] = c*src[i] and mulrc256_shuffle_ssse3 leaves region[i] =
\* c*region_old[i], as the scalar definitions do; with c = 0 multiply-add
\* leaves dst as it was and multiply zeroes it, with c = 1 they are XOR and
\* copy.
C22_RegionOperations ==
    gf.stage = "region" =>
        LET c == gf.constant
            n == gf.length
        IN  /\ gf.op = "none" /\ n = 0 =>
                  \A x \in Bytes :
                     BitXor(tl[c + 1][(x % 16) + 1], th[c + 1][(x \div 16) + 1])
                        = GfProduct(c, x)
            /\ gf.op = "madd" =>
                  \A j \in 0 .. n - 1 :
                     /\ gf.out[j] = region_multiply_add(gf.region1, gf.region2, c, j)
                     /\ c = 0 => gf.out[j] = gf.region1[j]
                     /\ c = 1 => gf.out[j] = BitXor(gf.region1[j], gf.region2[j])
            /\ gf.op = "mul" =>
                  \A j \in 0 .. n - 1 :
                     /\ gf.out[j] = region_multiply(gf.region2, c, j)
                     /\ c = 0 => gf.out[j] = 0
                     /\ c = 1 => gf.out[j] = gf.region2[j]
            /\ gf.op = "mul_in_place" =>
                  \A j \in 0 .. n - 1 : gf.out[j] = region_multiply(gf.region2, c, j)

\* A multiply-add with a multiplier that takes the table path, over a region
\* of two vectors, changed the region.
C22_Witness ==
    /\ gf.stage = "region"
    /\ gf.op = "madd"
    /\ gf.constant = 29
    /\ gf.length = 32
    /\ gf.out[31] = BitXor(gf.region1[31], GfProduct(29, gf.region2[31]))
    /\ gf.out # gf.region1

\* C21: RS round trip: a block of k source shards that was encoded and is
\* decoded from any k of its k + r fragments yields the k source shards;
\* when the k primaries are among them the result is the primary fragments.
\* The points of the Vandermonde matrix are different for all 255 rows, and
\* the first k rows of the generator are the identity.
C21_RsRoundTrip ==
    gf.stage = "rs" =>
        /\ gf.op = "none" =>
              /\ Cardinality({RsPoint(i) : i \in 0 .. MAX_TOTAL_FRAGMENTS - 1})
                    = MAX_TOTAL_FRAGMENTS
              /\ SubSeq(RsGenerator(gf.k, gf.r), 1, gf.k) = IdentityMatrix(gf.k)
        /\ gf.op = "encoded" => SubSeq(gf.fragments, 1, gf.k) = gf.source
        /\ gf.op = "decoded" =>
              /\ gf.decoded = gf.source
              /\ 1 .. gf.k \subseteq gf.present => gf.decoded = SubSeq(gf.fragments, 1, gf.k)

\* A block of three different shards was recovered from one primary and two
\* secondary fragments.
C21_Witness ==
    /\ gf.stage = "rs"
    /\ gf.op = "decoded"
    /\ gf.k = 3 /\ gf.r = 2
    /\ gf.present = {2, 4, 5}
    /\ Cardinality({gf.source[i] : i \in 1 .. 3}) = 3
    /\ gf.decoded = gf.source

CardDbm(values) == [c \in 0 .. Len(values) - 1 |-> values[c + 1]]

\* C24: the TX card index is a valid card index, and so is the card a packet
\* is injected on; without enable_auto_switch_tx_card it is 0; with it, it
\* changes only at the re-evaluation once per second, and only to the card of
\* the highest average RSSI, which exceeds the current card's by the margin.
\* Cards at -40 and -70 dBm select card 0, and card 1 at -30 dBm in the next
\* second selects card 1.
C24_TxCardSelection ==
    /\ [](txcard.stage = "run" =>
             /\ txcard.m_curr_tx_card \in 0 .. txcard.n_cards - 1
             /\ txcard.used \in (0 .. txcard.n_cards - 1) \cup {NoCard}
             /\ ~txcard.auto => txcard.m_curr_tx_card = 0 /\ txcard.used \in {0, NoCard}
             /\ (txcard.auto /\ txcard.seconds = 1 /\ txcard.card_dbm = CardDbm(<<-40, -70>>))
                   => txcard.m_curr_tx_card = 0
             /\ (txcard.auto /\ txcard.seconds = 2 /\ txcard.prev_dbm = CardDbm(<<-40, -70>>)
                   /\ txcard.card_dbm = CardDbm(<<-40, -30>>))
                   => txcard.m_curr_tx_card = 1)
    /\ [][(txcard.stage = "run" /\ txcard'.m_curr_tx_card # txcard.m_curr_tx_card) =>
             LET old == txcard.m_curr_tx_card
                 new == txcard'.m_curr_tx_card
                 dbm == txcard'.card_dbm
             IN  /\ txcard.auto
                 /\ txcard'.seconds = txcard.seconds + 1
                 /\ \A c \in DOMAIN dbm : dbm[c] <= dbm[new]
                 /\ dbm[new] - dbm[old] >= TX_CARD_SWITCH_MARGIN]_vars

\* The second of the two seconds of the example has elapsed, and a packet
\* was injected on card 1.
C24_Witness ==
    /\ txcard.stage = "run" /\ txcard.auto /\ txcard.seconds = 2
    /\ txcard.prev_dbm = CardDbm(<<-40, -70>>)
    /\ txcard.card_dbm = CardDbm(<<-40, -30>>)
    /\ txcard.m_curr_tx_card = 1 /\ txcard.used = 1

C26_RadiotapThreadSafe ==
    /\ rtap.stage = "run" =>
          /\ rtap.nInjectedPackets > 0 => rtap.injected.header \in rtap.injected.allowed
          /\ rtap.tx = "inject" => rtap.radiotapHeaderMutex = "tx"
          /\ ~rtap.stolen
          /\ rtap.upd = "assign" => rtap.radiotapHeaderMutex = "upd"
          /\ (rtap.tx \in {"idle", "enter"} /\ rtap.upd \in {"idle", "built"})
                => rtap.mRadiotapHeader = rtap.installed

\* A packet was injected while an update of bandwidth and MCS index ran
\* beside it, and it carries the new header.
C26_Witness ==
    /\ rtap.stage = "run"
    /\ rtap.nInjectedPackets = 1
    /\ rtap.injected.allowed = {<<20, 1>>, <<40, 2>>}
    /\ rtap.injected.header = <<40, 2>>

(***************************************************************************)
(* Properties of the size of the FEC blocks.                               *)
(***************************************************************************)
\* C27: every block the encoder closes has 1 <= k <= 128 primaries and
\* r = ceil(k * p / 100) parities with k + r <= 255, so that the indices of
\* its fragments fit in 8 bits, and the block size announced in the
\* session-key packet is at least k + r.
C27_FecBlockBounds ==
    (fecblk.stage = "run" /\ fecblk.block.k > 0) =>
        LET k == fecblk.block.k
            r == fecblk.block.r
        IN  /\ 1 <= k /\ k <= MAX_PRIMARY_FRAGMENTS
            /\ r * 100 >= k * fecblk.fec_percentage
            /\ (r - 1) * 100 < k * fecblk.fec_percentage
            /\ k + r <= MAX_TOTAL_FRAGMENTS
            /\ \A i \in 0 .. k + r - 1 : i = Uint8(i)
            /\ fecblk.MAX_N_FRAGMENTS_PER_BLOCK >= k + r

(***************************************************************************)
(* Properties of UDPMultiForwarder.                                        *)
(***************************************************************************)
\* The number of times x occurs in the sequence s.
Occurrences(s, x) == Cardinality({i \in 1 .. Len(s) : s[i] = x})

C29_RemoveForwarder ==
    /\ udp.stage = "run"
    /\ udp.last.op = "remove" =>
          /\ \A d \in UdpTuples :
                Occurrences(udp.last.after, d) =
                   IF d = udp.last.tuple THEN 0 ELSE Occurrences(udp.last.before, d)
          /\ Occurrences(udp.last.before, udp.last.tuple) = 0
                => udp.last.after = udp.last.before

(***************************************************************************)
(* Properties of UDPReceiver.                                              *)
(***************************************************************************)
\* C30: the callback is invoked once for every datagram recv has returned,
\* in the order of arrival (the datagram in hand may still be on its way to
\* the callback); the loop does not end before stopLooping is called; once
\* stopBackground has returned the thread has ended, and the callback is
\* not invoked any more.
C30_UdpReceiver ==
    udprx.stage = "run" =>
       /\ udprx.mCb = IF udprx.receiverThread = "got" /\ udprx.message_length >= 0
                      THEN SubSeq(udprx.received, 1, Len(udprx.received) - 1)
                      ELSE udprx.received
       /\ \A i \in 1 .. Len(udprx.received) : udprx.received[i] = i
       /\ udprx.receiverThread = "done" => udprx.stop # "none"
       /\ udprx.stop = "joined" => udprx.receiverThread \in {"none", "done"}
       /\ ~udprx.cb_after_join

(***************************************************************************)
(* Properties of the radio port.                                           *)
(***************************************************************************)
\* C31: the radio port written for a data packet determines the encrypted
\* flag and the stream index, and it is never the value of session-key
\* frames; a data packet goes to the stream it was injected on and not to
\* the session-key handler, a session-key frame to the session-key handler.
C31_ReservedSessionKeyPort ==
    /\ (rport.stage \in {"sent", "dispatched"} /\ rport.kind = "data") =>
          /\ rport.radio_port \in 0 .. 255
          /\ RadioPortEncrypted(rport.radio_port) = rport.encrypted
          /\ RadioPortMultiplexIndex(rport.radio_port) = rport.stream_index
          /\ rport.radio_port # STREAM_INDEX_SESSION_KEY_PACKETS
    /\ (rport.stage = "dispatched" /\ rport.kind = "data") => rport.handler = "stream"
    /\ (rport.stage = "dispatched" /\ rport.kind = "key") => rport.handler = "session_key"

(***************************************************************************)
(* Properties of the receiver before the first announcement.               *)
(***************************************************************************)
\* C32: as long as the Decryptor has not installed a session key from an
\* announcement, no data packet is accepted: it yields no data and no
\* callback, whatever key it was sealed under.
C32_NoDataBeforeFirstKey ==
    (replaced = {} /\ last.kind = "data") =>
        /\ last.data = NoData
        /\ last.cb_packet = {}

(***************************************************************************)
(* Properties of the transmitter over its whole lifetime.                  *)
(***************************************************************************)
\* C33 (no nonce reuse): no two data packets handed to the radio were sealed
\* under the same session key with the same nonce, with FEC disabled as well
\* as enabled, and also after the nonce counter has started again from 0.
C33_NoNonceReuse ==
    TxConstructed =>
      \A i, j \in TxDataPackets :
         (i # j /\ wbtx.out[i].key = wbtx.out[j].key)
         => wbtx.out[i].nonce # wbtx.out[j].nonce

\* The announcement handed to the radio last before position i of the log;
\* 0 when there is none.
LastKeyPacketBefore(i) ==
    IF \E j \in TxKeyPackets : j < i
    THEN CHOOSE j \in TxKeyPackets :
            j < i /\ \A h \in TxKeyPackets : h < i => h <= j
    ELSE 0

\* C34 (announcement precedes use): every data packet handed to the radio is
\* sealed under a key made by the session-key generation step, never under
\* the key the Encryptor holds before that step; the announcement handed to
\* the radio last before it is the announcement of that key; and every
\* announcement handed to the radio carries the box that opens to the key
\* the Encryptor held when it was sent.
C34_AnnouncementPrecedesUse ==
    TxConstructed =>
      /\ \A i \in TxDataPackets :
            /\ wbtx.out[i].key # ZeroKey
            /\ wbtx.out[i].key \in 1 .. wbtx.n_keys
            /\ LastKeyPacketBefore(i) # 0
            /\ wbtx.out[LastKeyPacketBefore(i)].key = wbtx.out[i].key
      /\ \A j \in TxKeyPackets :
            crypto_box_open_easy(wbtx.out[j].box.session_key_data,
                                 wbtx.out[j].box.session_key_nonce,
                                 wbtx.rx_publickey, wbtx.tx_secretkey)
              = wbtx.out[j].key

\* C34 witness: data went out under the key of the constructor after the
\* startup burst and a periodic announcement, and data went out under a
\* second key after its announcement.
C34_Witness ==
    /\ wbtx.stage = "running"
    /\ TxPeriodic # {}
    /\ \E i, j \in TxDataPackets :
          /\ i < j
          /\ wbtx.out[i].key = 1
          /\ wbtx.out[j].key = 2
          /\ wbtx.out[LastKeyPacketBefore(j)].cause = "rekey"
          /\ \E h \in TxPeriodic : h < i

(***************************************************************************)
(* The bytes behind the end of a region.                                   *)
(***************************************************************************)
\* C36 (region bounds): maddrc256_shuffle_ssse3 and mulrc256_shuffle_ssse3
\* leave every byte at an offset >= length as it was, for every length, also
\* one that is not a multiple of 16.
C36_RegionBounds ==
    gf.stage = "region" =>
        /\ gf.op = "madd" =>
              \A j \in RegionOffsets(gf.length) :
                 j >= gf.length => gf.out[j] = gf.region1[j]
        /\ gf.op = "mul_in_place" =>
              \A j \in RegionOffsets(gf.length) :
                 j >= gf.length => gf.out[j] = gf.region2[j]

(***************************************************************************)
(* Properties of the radiotap header under updates from several threads.   *)
(***************************************************************************)
\* C35: when every update of the radiotap parameters that was called has
\* returned, the header installed for injection is the header built from
\* the stored parameters.
C35_HeaderMatchesParams ==
    (/\ rtupd.stage = "run"
     /\ \A t \in Updaters : rtupd.pc[t] = "idle")
       => rtupd.mRadiotapHeader = RadiotapHeader(rtupd.radioTapHeaderParams)

====
